---- MODULE Spec2Model ----
(***************************************************************************)
(* A model of the Wildberries report pipeline:                             *)
(*   - WBAPIClient._make_request (src/wb_api/client.py), the retrying GET, *)
(*     one action per kind of server answer, one loop iteration each;      *)
(*   - WBBot.parse_command (src/bot.py), the request that fetches the      *)
(*     datasets, groups the sales by day and hands the day to the report;  *)
(*   - ExcelHandler.add_daily_data (src/wb_api/excel_handler.py), the      *)
(*     upsert of a day's row into the report file, read and written whole; *)
(*   - ExcelHandler's constructor, read_data and write_data with the file  *)
(*     absent, empty or unreadable, a template or none, and a save that    *)
(*     fails: the file's header, rows and cell styles;                     *)
(*   - ExcelHandler.update_row, beside add_daily_data on one file;         *)
(*   - WBBot._safe_reply and the messages of one parse_command, with the   *)
(*     attempts each of them takes.                                        *)
(*                                                                         *)
(* Strings the code takes apart (dates, the Retry-After header) are        *)
(* sequences of one-character strings, so that parsing and formatting are  *)
(* computed and not assumed.                                               *)
(***************************************************************************)
EXTENDS Integers, Sequences, FiniteSets, TLC

\* ------------------------------------------------------------------ bounds
\* The longest record list a 200 body carries.
MaxRecords == 2
MaxAdverts == 2
MaxCalls == 3

\* ------------------------------------------------------- program constants
\* def _make_request(..., max_retries: int = 5)
max_retries == 5
\* response.headers.get('Retry-After', 60)
DefaultRetryAfter == 60
\* wait_time = (2 ** attempt) * 5
BackoffBase == 5

\* ------------------------------------------------------------- characters
Digits == {"0", "1", "2", "3", "4", "5", "6", "7", "8", "9"}

DigitValue(c) ==
    CASE c = "0" -> 0 [] c = "1" -> 1 [] c = "2" -> 2 [] c = "3" -> 3
      [] c = "4" -> 4 [] c = "5" -> 5 [] c = "6" -> 6 [] c = "7" -> 7
      [] c = "8" -> 8 [] c = "9" -> 9

DigitChar(n) ==
    CASE n = 0 -> "0" [] n = 1 -> "1" [] n = 2 -> "2" [] n = 3 -> "3"
      [] n = 4 -> "4" [] n = 5 -> "5" [] n = 6 -> "6" [] n = 7 -> "7"
      [] n = 8 -> "8" [] n = 9 -> "9"

IsDigits(s) == Len(s) > 0 /\ \A i \in 1..Len(s) : s[i] \in Digits

RECURSIVE DecimalValue(_)
DecimalValue(s) ==
    IF s = <<>> THEN 0
    ELSE 10 * DecimalValue(SubSeq(s, 1, Len(s) - 1)) + DigitValue(s[Len(s)])

\* int(x) of a header string: its value, or ValueError (ok = FALSE).
ParseInt(s) ==
    IF IsDigits(s) THEN [ok |-> TRUE, value |-> DecimalValue(s)]
    ELSE [ok |-> FALSE, value |-> 0]

\* 2 ** n
RECURSIVE Pow2(_)
Pow2(n) == IF n = 0 THEN 1 ELSE 2 * Pow2(n - 1)

\* ---------------------------------------------------------------- errors
\* An exception: its class and, for an HTTPError, e.response.status_code.
Err(type, status) == [type |-> type, status |-> status]
NoError == Err("none", 0)

\* ------------------------------------------------------ the server's answers
\* What one requests.get(url, ..., timeout=30) yields: a response (status, the
\* Retry-After header if sent, the body) or an exception of the transport.
\* body.tag: "list" a JSON array, "dict" one JSON object, "scalar" any other
\* JSON value, "undecodable" not JSON; json_raises is the class response.json()
\* raises on an undecodable body, which depends on the installed requests
\* (its own JSONDecodeError, a RequestException, or json's, a ValueError).
ListBody(items) == [tag |-> "list", items |-> items]
DictBody(object) == [tag |-> "dict", object |-> object]
ScalarBody == [tag |-> "scalar"]
UndecodableBody == [tag |-> "undecodable"]
NoBody == ScalarBody

Response(status, has_retry_after, retry_after, body, json_raises) ==
    [kind |-> "response", status |-> status, has_retry_after |-> has_retry_after,
     retry_after |-> retry_after, body |-> body, json_raises |-> json_raises]

TimeoutOutcome ==
    [kind |-> "timeout", status |-> 0, has_retry_after |-> FALSE,
     retry_after |-> <<>>, body |-> NoBody, json_raises |-> "none"]

NetworkErrorOutcome ==
    [kind |-> "neterr", status |-> 0, has_retry_after |-> FALSE,
     retry_after |-> <<>>, body |-> NoBody, json_raises |-> "none"]

\* ------------------------------------------------- WBAPIClient._make_request
\* What one iteration of the for loop decides: return a value, raise an error,
\* or go to the next iteration, and the time.sleep it made on the way.
Return(value) ==
    [next |-> "return", slept |-> <<>>, value |-> value, error |-> NoError]
Raise(error) ==
    [next |-> "raise", slept |-> <<>>, value |-> <<>>, error |-> error]
SleepAndContinue(wait_time) ==
    [next |-> "retry", slept |-> <<wait_time>>, value |-> <<>>, error |-> NoError]

\* Mutant: a linear backoff, 5 * (attempt + 1).
Backoff_Linear(attempt) == (attempt + 1) * BackoffBase

\* wait_time = (2 ** attempt) * 5
Backoff(attempt) == Pow2(attempt) * BackoffBase

\* except requests.exceptions.Timeout
OnTimeout(attempt) ==
    IF attempt < max_retries - 1 THEN SleepAndContinue(Backoff(attempt))
    ELSE Raise(Err("Timeout", 0))

\* Mutant: 400 missing from the statuses that are not retried.
OnHTTPError_Retries400(attempt, status) ==
    IF status \in {401, 403} THEN Raise(Err("HTTPError", status))
    ELSE IF attempt < max_retries - 1 THEN SleepAndContinue(Backoff(attempt))
    ELSE Raise(Err("HTTPError", status))

\* Mutant: 403 missing from the statuses that are not retried.
OnHTTPError_Retries403(attempt, status) ==
    IF status \in {400, 401} THEN Raise(Err("HTTPError", status))
    ELSE IF attempt < max_retries - 1 THEN SleepAndContinue(Backoff(attempt))
    ELSE Raise(Err("HTTPError", status))

\* Mutant: every 4xx is raised at once, only the 5xx are retried.
OnHTTPError_RetriesOnly5xx(attempt, status) ==
    IF status < 500 THEN Raise(Err("HTTPError", status))
    ELSE IF attempt < max_retries - 1 THEN SleepAndContinue(Backoff(attempt))
    ELSE Raise(Err("HTTPError", status))

\* except requests.exceptions.HTTPError as e
OnHTTPError(attempt, status) ==
    IF status \in {400, 401, 403} THEN Raise(Err("HTTPError", status))
    ELSE IF attempt < max_retries - 1 THEN SleepAndContinue(Backoff(attempt))
    ELSE Raise(Err("HTTPError", status))

\* except requests.exceptions.RequestException as e
OnRequestException(attempt, type) ==
    IF attempt < max_retries - 1 THEN SleepAndContinue(Backoff(attempt))
    ELSE Raise(Err(type, 0))

\* Mutant: the Retry-After header is not read, the wait is always the default.
On429_IgnoresHeader(attempt, resp) ==
    IF attempt < max_retries - 1 THEN SleepAndContinue(DefaultRetryAfter)
    ELSE OnHTTPError(attempt, 429)

\* Mutant: `attempt < max_retries`, so the last 429 sleeps and the loop runs out.
On429_SleepsOnLastAttempt(attempt, resp) ==
    LET retry_after == IF resp.has_retry_after THEN ParseInt(resp.retry_after)
                       ELSE [ok |-> TRUE, value |-> DefaultRetryAfter]
    IN  IF ~retry_after.ok THEN Raise(Err("ValueError", 0))
        ELSE IF attempt < max_retries THEN SleepAndContinue(retry_after.value)
        ELSE OnHTTPError(attempt, 429)

\* Mutant: a Retry-After that is not an integer falls back to the default wait.
On429_DefaultsOnBadHeader(attempt, resp) ==
    LET parsed == IF resp.has_retry_after THEN ParseInt(resp.retry_after)
                  ELSE [ok |-> TRUE, value |-> DefaultRetryAfter]
        retry_after == IF parsed.ok THEN parsed.value ELSE DefaultRetryAfter
    IN  IF attempt < max_retries - 1 THEN SleepAndContinue(retry_after)
        ELSE OnHTTPError(attempt, 429)

\* if response.status_code == 429: ...
On429(attempt, resp) ==
    LET retry_after == IF resp.has_retry_after THEN ParseInt(resp.retry_after)
                       ELSE [ok |-> TRUE, value |-> DefaultRetryAfter]
    IN  IF ~retry_after.ok THEN Raise(Err("ValueError", 0))
        ELSE IF attempt < max_retries - 1 THEN SleepAndContinue(retry_after.value)
        ELSE OnHTTPError(attempt, 429)

\* response.raise_for_status() raises for 4xx and 5xx
RaisesForStatus(status) == status >= 400 /\ status < 600

\* Mutant: an object body falls to the else branch and is dropped.
OnSuccess_DropsObject(attempt, resp) ==
    IF resp.body.tag = "undecodable" THEN
        IF resp.json_raises = "ValueError" THEN Raise(Err("ValueError", 0))
        ELSE OnRequestException(attempt, "JSONDecodeError")
    ELSE IF resp.body.tag = "list" THEN Return(resp.body.items)
    ELSE Return(<<>>)

\* result = response.json(); list -> result, dict -> [result], else -> []
OnSuccess(attempt, resp) ==
    IF resp.body.tag = "undecodable" THEN
        IF resp.json_raises = "ValueError" THEN Raise(Err("ValueError", 0))
        ELSE OnRequestException(attempt, "JSONDecodeError")
    ELSE IF resp.body.tag = "list" THEN Return(resp.body.items)
    ELSE IF resp.body.tag = "dict" THEN Return(<<resp.body.object>>)
    ELSE Return(<<>>)

\* The body of `for attempt in range(max_retries)` for one answer of the server.
Attempt(attempt, o) ==
    IF o.kind = "timeout" THEN OnTimeout(attempt)
    ELSE IF o.kind = "neterr" THEN OnRequestException(attempt, "ConnectionError")
    ELSE IF o.status = 429 THEN On429(attempt, o)
    ELSE IF o.status = 400 THEN OnHTTPError(attempt, 400)
    ELSE IF RaisesForStatus(o.status) THEN OnHTTPError(attempt, o.status)
    ELSE OnSuccess(attempt, o)

\* The state of one call of _make_request.
NewCall ==
    [attempt |-> 0, requests |-> 0, sleeps |-> <<>>, responses |-> <<>>,
     call |-> "running", result |-> <<>>, error |-> NoError]

\* Mutant: a retry that does not advance the attempt counter.
CallStep_NoIncrement(c, o) ==
    LET a == Attempt(c.attempt, o)
        base == [c EXCEPT !.requests = @ + 1,
                          !.responses = Append(@, o),
                          !.sleeps = @ \o a.slept]
    IN  IF a.next = "return" THEN
            [base EXCEPT !.call = "returned", !.result = a.value]
        ELSE IF a.next = "raise" THEN
            [base EXCEPT !.call = "raised", !.error = a.error]
        ELSE base

\* Mutant: a 429 that is waited out does not use up an attempt.
CallStep_429KeepsAttempt(c, o) ==
    LET a == Attempt(c.attempt, o)
        base == [c EXCEPT !.requests = @ + 1,
                          !.responses = Append(@, o),
                          !.sleeps = @ \o a.slept]
    IN  IF a.next = "return" THEN
            [base EXCEPT !.call = "returned", !.result = a.value]
        ELSE IF a.next = "raise" THEN
            [base EXCEPT !.call = "raised", !.error = a.error]
        ELSE IF o.kind = "response" /\ o.status = 429 THEN base
        ELSE IF c.attempt + 1 < max_retries THEN
            [base EXCEPT !.attempt = @ + 1]
        ELSE
            [base EXCEPT !.call = "raised", !.error = Err("RequestException", 0)]

\* One iteration: the GET, the decision, the sleep, and the loop's increment;
\* a loop that runs out falls to the raise after it.
CallStep(c, o) ==
    LET a == Attempt(c.attempt, o)
        base == [c EXCEPT !.requests = @ + 1,
                          !.responses = Append(@, o),
                          !.sleeps = @ \o a.slept]
    IN  IF a.next = "return" THEN
            [base EXCEPT !.call = "returned", !.result = a.value]
        ELSE IF a.next = "raise" THEN
            [base EXCEPT !.call = "raised", !.error = a.error]
        ELSE IF c.attempt + 1 < max_retries THEN
            [base EXCEPT !.attempt = @ + 1]
        ELSE
            [base EXCEPT !.call = "raised", !.error = Err("RequestException", 0)]

\* ------------------------------------------------------------------ dates
\* datetime.now().date() of the request.
Today == [year |-> 2024, month |-> 1, day |-> 5]

IsoToday == <<"2", "0", "2", "4", "-", "0", "1", "-", "0", "5">>
IsoTodayNoon == IsoToday \o <<"T", "1", "2", ":", "0", "0", ":", "0", "0">>
IsoYesterday == <<"2", "0", "2", "4", "-", "0", "1", "-", "0", "4">>

IsLeap(y) == (y % 4 = 0 /\ y % 100 # 0) \/ y % 400 = 0
DaysInMonth(y, m) ==
    IF m = 2 THEN (IF IsLeap(y) THEN 29 ELSE 28)
    ELSE IF m \in {4, 6, 9, 11} THEN 30 ELSE 31

\* The time of day after the date: nothing, or one separator and HH:MM:SS.
IsIsoTime(t) ==
    \/ t = <<>>
    \/ /\ Len(t) = 9
       /\ t[4] = ":" /\ t[7] = ":"
       /\ \A i \in {2, 3, 5, 6, 8, 9} : t[i] \in Digits
       /\ DecimalValue(SubSeq(t, 2, 3)) < 24
       /\ DecimalValue(SubSeq(t, 5, 6)) < 60
       /\ DecimalValue(SubSeq(t, 8, 9)) < 60

\* datetime.fromisoformat(s): the date, or ValueError (ok = FALSE).
FromIsoFormat(s) ==
    LET bad == [ok |-> FALSE, year |-> 0, month |-> 0, day |-> 0]
    IN  IF Len(s) < 10 THEN bad
        ELSE IF ~(/\ s[5] = "-" /\ s[8] = "-"
                  /\ \A i \in {1, 2, 3, 4, 6, 7, 9, 10} : s[i] \in Digits
                  /\ IsIsoTime(SubSeq(s, 11, Len(s)))) THEN bad
        ELSE LET y == DecimalValue(SubSeq(s, 1, 4))
                 m == DecimalValue(SubSeq(s, 6, 7))
                 d == DecimalValue(SubSeq(s, 9, 10))
             IN  IF y >= 1 /\ m \in 1..12 /\ d >= 1 /\ d <= DaysInMonth(y, m)
                 THEN [ok |-> TRUE, year |-> y, month |-> m, day |-> d]
                 ELSE bad

TwoDigits(n) == <<DigitChar((n \div 10) % 10), DigitChar(n % 10)>>
FourDigits(n) == TwoDigits(n \div 100) \o TwoDigits(n % 100)

\* d.strftime("%d.%m.%Y")
StrftimeDay(d) ==
    TwoDigits(d.day) \o <<".">> \o TwoDigits(d.month) \o <<".">> \o FourDigits(d.year)

\* ---------------------------------------------------------------- records
\* dict.get(key, default)
Get(r, key, default) == IF key \in DOMAIN r THEN r[key] ELSE default

\* The records the backend holds, per endpoint.
SaleRecords ==
    { [date |-> IsoTodayNoon, nmId |-> 100, priceWithDisc |-> 500,
       totalPrice |-> 500, isRealization |-> TRUE],
      [date |-> IsoToday, nmId |-> 101, priceWithDisc |-> 300,
       totalPrice |-> 300, isRealization |-> FALSE],
      [date |-> IsoYesterday, nmId |-> 100, priceWithDisc |-> 700,
       totalPrice |-> 700, isRealization |-> TRUE],
      [nmId |-> 100, priceWithDisc |-> 500, totalPrice |-> 500,
       isRealization |-> TRUE] }

StockRecords ==
    { [nmId |-> 100, quantity |-> 20], [nmId |-> 101, quantity |-> 7] }

OrderRecords ==
    { [date |-> IsoTodayNoon, nmId |-> 100, totalPrice |-> 500, isCancel |-> FALSE],
      [date |-> IsoTodayNoon, nmId |-> 101, totalPrice |-> 300, isCancel |-> TRUE] }

AdvertRecords ==
    { [date |-> IsoToday, impressions |-> 100, clicks |-> 10, sum |-> 100],
      [date |-> IsoToday, impressions |-> 50, clicks |-> 0, sum |-> 0] }

FunnelRecords ==
    { [date |-> IsoToday, openCount |-> 40, cartCount |-> 5, orderCount |-> 2] }

\* The endpoints of the data flow, and those WBAPIClient has a method for
\* (get_statistics, get_stocks, get_orders, get_advert_statistics).
Endpoints == {"sales", "stocks", "orders", "advert", "funnel"}
ClientEndpoints == {"sales", "stocks", "orders", "advert"}

RecordsOf(ep) ==
    CASE ep = "sales" -> SaleRecords
      [] ep = "stocks" -> StockRecords
      [] ep = "orders" -> OrderRecords
      [] ep = "advert" -> AdvertRecords
      [] ep = "funnel" -> FunnelRecords

MaxLen(ep) == IF ep = "sales" THEN MaxRecords ELSE MaxRecords - 1

SeqsUpTo(S, n) == UNION { [1..k -> S] : k \in 0..n }

\* The bodies the backend answers an endpoint's 200 with.
Bodies(ep) ==
    { ListBody(items) : items \in SeqsUpTo(RecordsOf(ep), MaxLen(ep)) }
      \cup { DictBody(r) : r \in RecordsOf(ep) }
      \cup { ScalarBody }

RetryAfterValues == { <<"2">>, <<"x">> }

Responses200(ep) ==
    { Response(200, FALSE, <<>>, b, "none") : b \in Bodies(ep) }
      \cup { Response(200, FALSE, <<>>, UndecodableBody, x) :
                x \in {"ValueError", "JSONDecodeError"} }

Responses429 ==
    { Response(429, FALSE, <<>>, NoBody, "none") }
      \cup { Response(429, TRUE, v, NoBody, "none") : v \in RetryAfterValues }

ErrorResponse(status) == Response(status, FALSE, <<>>, NoBody, "none")

Outcomes(ep) ==
    Responses200(ep) \cup Responses429
      \cup { ErrorResponse(st) : st \in {400, 401, 403, 404, 500} }
      \cup { TimeoutOutcome, NetworkErrorOutcome }

\* ------------------------------------------------- the fetches of a request
\* No 200 body: the endpoint was not asked, or its call raised.
NoServed == [tag |-> "none"]

\* A call as parse_command sees it: how often it asked, how long it slept and
\* what it was answered before its last answer are forgotten.
Forget(c) ==
    [c EXCEPT !.requests = 0,
              !.sleeps = <<>>,
              !.responses = IF @ = <<>> THEN <<>> ELSE <<@[Len(@)]>>]

\* The calls of _make_request for ep after at most n iterations of its loop,
\* the server answering each GET with any of its answers.
RECURSIVE Calls(_, _, _)
Calls(ep, S, n) ==
    IF n = 0 THEN S
    ELSE Calls(ep,
               S \cup { Forget(CallStep(c, o)) :
                          c \in { d \in S : d.call = "running" },
                          o \in Outcomes(ep) },
               n - 1)

\* What a call of _make_request for ep may end in: returned with a list, or
\* raised, and the 200 body the backend answered with when it returned.
FetchResults(ep) ==
    { [call |-> c.call, result |-> c.result, error |-> c.error,
       body |-> IF c.call = "returned" THEN c.responses[1].body ELSE NoServed] :
        c \in { d \in Calls(ep, {NewCall}, max_retries) : d.call # "running" } }

SalesResults == FetchResults("sales")
StocksResults == FetchResults("stocks")
OrdersResults == FetchResults("orders")
AdvertResults == FetchResults("advert")

\* --------------------------------------------------------- the aggregation
\* today.strftime("%d.%m.%Y")
today_str == StrftimeDay(Today)

\* defaultdict(lambda: {"sales": [], "total_price": 0, ...})
NewDay == [sales |-> <<>>, total_price |-> 0, total_quantity |-> 0, articles |-> {}]

\* d[key] of a defaultdict d whose default is `default`
Lookup(d, key, default) == IF key \in DOMAIN d THEN d[key] ELSE default

\* Mutant: a sale never counts as a sold unit.
AddSale_NoQuantity(data_by_date, sale) ==
    LET sale_date == StrftimeDay(FromIsoFormat(Get(sale, "date", <<>>)))
        day == Lookup(data_by_date, sale_date, NewDay)
    IN  (sale_date :> [sales |-> Append(day.sales, sale),
                       total_price |-> day.total_price + Get(sale, "totalPrice", 0),
                       total_quantity |-> day.total_quantity,
                       articles |-> day.articles \cup {Get(sale, "nmId", -1)}])
            @@ data_by_date

\* Mutant: every sale is put under today, whatever its date.
AddSale_IgnoresDate(data_by_date, sale) ==
    LET quantity == IF Get(sale, "isRealization", FALSE) THEN 1 ELSE 0
        day == Lookup(data_by_date, today_str, NewDay)
    IN  (today_str :> [sales |-> Append(day.sales, sale),
                       total_price |-> day.total_price + Get(sale, "totalPrice", 0),
                       total_quantity |-> day.total_quantity + quantity,
                       articles |-> day.articles \cup {Get(sale, "nmId", -1)}])
            @@ data_by_date

\* The body of `for sale in sales_data`, for one sale.
AddSale(data_by_date, sale) ==
    LET sale_date == StrftimeDay(FromIsoFormat(Get(sale, "date", <<>>)))
        quantity == IF Get(sale, "isRealization", FALSE) THEN 1 ELSE 0
        total_price == Get(sale, "totalPrice", 0)
        day == Lookup(data_by_date, sale_date, NewDay)
    IN  (sale_date :> [sales |-> Append(day.sales, sale),
                       total_price |-> day.total_price + total_price,
                       total_quantity |-> day.total_quantity + quantity,
                       articles |-> day.articles \cup {Get(sale, "nmId", -1)}])
            @@ data_by_date

\* `for sale in sales_data: ...`: the grouping, or the ValueError that
\* datetime.fromisoformat raises for the first sale whose date does not parse.
RECURSIVE GroupSales(_, _)
GroupSales(data_by_date, sales) ==
    IF sales = <<>> THEN [raised |-> FALSE, data_by_date |-> data_by_date]
    ELSE IF ~FromIsoFormat(Get(Head(sales), "date", <<>>)).ok
         THEN [raised |-> TRUE, data_by_date |-> data_by_date]
    ELSE GroupSales(AddSale(data_by_date, Head(sales)), Tail(sales))

\* Mutant: a cancelled order is counted like any other.
RECURSIVE GroupOrders_CountsCancelled(_, _)
GroupOrders_CountsCancelled(orders_by_date, orders) ==
    IF orders = <<>> THEN orders_by_date
    ELSE LET order == Head(orders)
             parsed == FromIsoFormat(Get(order, "date", <<>>))
             order_date == StrftimeDay(parsed)
             day == Lookup(orders_by_date, order_date, [count |-> 0, total_price |-> 0])
         IN  IF parsed.ok
             THEN GroupOrders_CountsCancelled(
                      (order_date :> [count |-> day.count + 1,
                                      total_price |-> day.total_price
                                                        + Get(order, "totalPrice", 0)])
                          @@ orders_by_date,
                      Tail(orders))
             ELSE GroupOrders_CountsCancelled(orders_by_date, Tail(orders))

\* `for order in orders_data: try: ... except: ...`: per day, the orders that
\* are not cancelled; an order whose date does not parse is skipped.
RECURSIVE GroupOrders(_, _)
GroupOrders(orders_by_date, orders) ==
    IF orders = <<>> THEN orders_by_date
    ELSE LET order == Head(orders)
             parsed == FromIsoFormat(Get(order, "date", <<>>))
             order_date == StrftimeDay(parsed)
             day == Lookup(orders_by_date, order_date, [count |-> 0, total_price |-> 0])
         IN  IF parsed.ok /\ ~Get(order, "isCancel", FALSE)
             THEN GroupOrders(
                      (order_date :> [count |-> day.count + 1,
                                      total_price |-> day.total_price
                                                        + Get(order, "totalPrice", 0)])
                          @@ orders_by_date,
                      Tail(orders))
             ELSE GroupOrders(orders_by_date, Tail(orders))

\* month_total = 0
month_total == 0

\* --- numbers that are not integers: n/d in lowest terms (d > 0). Python
\* computes them as floats; the model keeps the exact quotient.
RECURSIVE GCD(_, _)
GCD(a, b) == IF b = 0 THEN a ELSE GCD(b, a % b)

Frac(n, d) ==
    LET g == GCD(IF n < 0 THEN -n ELSE n, d)
    IN  [num |-> n \div g, den |-> d \div g]

Zero == Frac(0, 1)

\* Mutant: rounded to one decimal.
Round2_OneDecimal(n, d) ==
    LET q == (10 * n) \div d
        r == (10 * n) % d
        h == IF 2 * r > d \/ (2 * r = d /\ q % 2 = 1) THEN q + 1 ELSE q
    IN  Frac(h, 10)

\* round(n/d, 2): the nearest number of hundredths, ties to the even one.
Round2(n, d) ==
    LET q == (100 * n) \div d
        r == (100 * n) % d
        h == IF 2 * r > d \/ (2 * r = d /\ q % 2 = 1) THEN q + 1 ELSE q
    IN  Frac(h, 100)

\* datetime.strptime(s, "%Y-%m-%d"): four digits, then month and day of one or
\* two digits, nothing after them; or ValueError (ok = FALSE).
StrptimeYmd(s) ==
    LET bad == [ok |-> FALSE, year |-> 0, month |-> 0, day |-> 0]
        n == Len(s)
        dash == IF n >= 7 /\ s[7] = "-" THEN 7 ELSE 8
    IN  IF n < 8 \/ n > 10 THEN bad
        ELSE IF ~(/\ IsDigits(SubSeq(s, 1, 4))
                  /\ s[5] = "-"
                  /\ dash < n /\ s[dash] = "-"
                  /\ IsDigits(SubSeq(s, 6, dash - 1))
                  /\ IsDigits(SubSeq(s, dash + 1, n))
                  /\ n - dash <= 2) THEN bad
        ELSE LET y == DecimalValue(SubSeq(s, 1, 4))
                 m == DecimalValue(SubSeq(s, 6, dash - 1))
                 d == DecimalValue(SubSeq(s, dash + 1, n))
             IN  IF y >= 1 /\ m \in 1..12 /\ d >= 1 /\ d <= DaysInMonth(y, m)
                 THEN [ok |-> TRUE, year |-> y, month |-> m, day |-> d]
                 ELSE bad

\* defaultdict(lambda: {"impressions": 0, "clicks": 0, "ctr": 0.0, ...})
NewAdvertDay ==
    [impressions |-> 0, clicks |-> 0, ctr |-> Zero, cost_auc |-> 0, cost_ark |-> 0,
     click_price_auc |-> Zero, click_price_ark |-> Zero]

\* Mutant: the first price stored for a day is kept.
AddAdvert_FirstPriceStays(advert_by_date, advert) ==
    LET adv_date_str == Get(advert, "date", <<>>)
        parsed == StrptimeYmd(adv_date_str)
        adv_date == IF parsed.ok THEN StrftimeDay(parsed) ELSE adv_date_str
        day == Lookup(advert_by_date, adv_date, NewAdvertDay)
        clicks == Get(advert, "clicks", 0)
        cost_total == IF Get(advert, "sum", 0) # 0 THEN advert.sum
                      ELSE Get(advert, "cost", 0)
        cpc == Get(advert, "cpc", Zero)
        click_price ==
            IF day.click_price_auc.num > 0 THEN [set |-> FALSE, value |-> Zero]
            ELSE IF cpc.num > 0 THEN [set |-> TRUE, value |-> cpc]
            ELSE IF clicks > 0 /\ cost_total > 0
                 THEN [set |-> TRUE, value |-> Frac(cost_total, clicks)]
            ELSE [set |-> FALSE, value |-> Zero]
    IN  IF adv_date_str = <<>> THEN advert_by_date
        ELSE (adv_date :>
                 [day EXCEPT
                    !.impressions = @ + Get(advert, "impressions", 0),
                    !.clicks = @ + clicks,
                    !.cost_auc = @ + cost_total,
                    !.click_price_auc = IF click_price.set THEN click_price.value ELSE @,
                    !.click_price_ark = IF click_price.set THEN click_price.value ELSE @])
             @@ advert_by_date

\* The body of `for advert in advert_data`, for one record: a record without a
\* date is passed over; a date that is not YYYY-MM-DD is taken as it is.
AddAdvert(advert_by_date, advert) ==
    LET adv_date_str == Get(advert, "date", <<>>)
        parsed == StrptimeYmd(adv_date_str)
        adv_date == IF parsed.ok THEN StrftimeDay(parsed) ELSE adv_date_str
        day == Lookup(advert_by_date, adv_date, NewAdvertDay)
        clicks == Get(advert, "clicks", 0)
        cost_total == IF Get(advert, "sum", 0) # 0 THEN advert.sum
                      ELSE Get(advert, "cost", 0)
        cpc == Get(advert, "cpc", Zero)
        click_price ==
            IF cpc.num > 0 THEN [set |-> TRUE, value |-> cpc]
            ELSE IF clicks > 0 /\ cost_total > 0
                 THEN [set |-> TRUE, value |-> Frac(cost_total, clicks)]
            ELSE [set |-> FALSE, value |-> Zero]
    IN  IF adv_date_str = <<>> THEN advert_by_date
        ELSE (adv_date :>
                 [day EXCEPT
                    !.impressions = @ + Get(advert, "impressions", 0),
                    !.clicks = @ + clicks,
                    !.cost_auc = @ + cost_total,
                    !.click_price_auc = IF click_price.set THEN click_price.value ELSE @,
                    !.click_price_ark = IF click_price.set THEN click_price.value ELSE @])
             @@ advert_by_date

\* `for advert in advert_data: try: ... except: ...`
RECURSIVE GroupAdverts(_, _)
GroupAdverts(advert_by_date, adverts) ==
    IF adverts = <<>> THEN advert_by_date
    ELSE GroupAdverts(AddAdvert(advert_by_date, Head(adverts)), Tail(adverts))

\* defaultdict(lambda: {"card_views": 0, "baskets": 0, "orders": 0})
NewFunnelDay == [card_views |-> 0, baskets |-> 0, orders |-> 0]

\* The body of `for funnel in funnel_data`, for one record: a record without a
\* date is passed over, one whose date is not YYYY-MM-DD raises and is skipped.
AddFunnel(funnel_by_date, funnel) ==
    LET fun_date_str == Get(funnel, "date", <<>>)
        parsed == StrptimeYmd(fun_date_str)
        fun_date == StrftimeDay(parsed)
        day == Lookup(funnel_by_date, fun_date, NewFunnelDay)
    IN  IF fun_date_str = <<>> \/ ~parsed.ok THEN funnel_by_date
        ELSE (fun_date :>
                 [card_views |-> day.card_views + Get(funnel, "openCount", 0),
                  baskets |-> day.baskets + Get(funnel, "cartCount", 0),
                  orders |-> day.orders + Get(funnel, "orderCount", 0)])
             @@ funnel_by_date

\* `for funnel in funnel_data: try: ... except: ...`
RECURSIVE GroupFunnels(_, _)
GroupFunnels(funnel_by_date, funnels) ==
    IF funnels = <<>> THEN funnel_by_date
    ELSE GroupFunnels(AddFunnel(funnel_by_date, Head(funnels)), Tail(funnels))

\* Mutant: every stock record of the article is counted, not the first only.
RECURSIVE StockOf_EveryRecord(_, _)
StockOf_EveryRecord(stocks, article) ==
    IF stocks = <<>> THEN 0
    ELSE (IF Get(Head(stocks), "nmId", -2) = article
          THEN (IF Get(Head(stocks), "quantity", 0) # 0 THEN Head(stocks).quantity
                ELSE Get(Head(stocks), "amount", 0))
          ELSE 0)
         + StockOf_EveryRecord(Tail(stocks), article)

\* next((s for s in stocks_data if s.get("nmId") == article), None), and the
\* quantity taken from it: `quantity` or `amount` or 0; nothing when there is
\* no such record. (A sale without nmId has article "", here -1, which no
\* stock record carries.)
RECURSIVE StockOf(_, _)
StockOf(stocks, article) ==
    IF stocks = <<>> THEN 0
    ELSE IF Get(Head(stocks), "nmId", -2) = article
         THEN (IF Get(Head(stocks), "quantity", 0) # 0 THEN Head(stocks).quantity
               ELSE Get(Head(stocks), "amount", 0))
    ELSE StockOf(Tail(stocks), article)

\* `for article in date_data["articles"]: ... total_stock += stock_qty`
RECURSIVE TotalStock(_, _)
TotalStock(stocks, articles) ==
    IF articles = {} THEN 0
    ELSE LET article == CHOOSE a \in articles : TRUE
         IN  StockOf(stocks, article) + TotalStock(stocks, articles \ {article})

\* sum(s.get("priceWithDisc", 0) for s in date_data["sales"])
RECURSIVE SumPriceWithDisc(_)
SumPriceWithDisc(sales) ==
    IF sales = <<>> THEN 0
    ELSE Get(Head(sales), "priceWithDisc", 0) + SumPriceWithDisc(Tail(sales))

\* The keys of wb_row_data, in Latin letters: "К день", "Касса день", "Касса
\* месяц", "заказы", "ЦЕНА товара", "остаток товара на складе", "хран день",
\* "показы", "клики", "CTR", "цена клика АУКЦ", "цена клика АРК", "цена клика",
\* "расход АУКЦ", "расход АРК", "перешли в карточку", "корзин".
\* A key that is set only under a condition: the pair, or nothing.
Key(cond, key, value) == IF cond THEN key :> value ELSE <<>>

\* Mutant: the funnel's order count is taken even when it is 0.
OrderCount_FunnelAlways(date_data, orders_by_date, funnel_by_date) ==
    IF today_str \in DOMAIN funnel_by_date
    THEN funnel_by_date[today_str].orders
    ELSE IF today_str \in DOMAIN orders_by_date
         THEN orders_by_date[today_str].count
    ELSE date_data.total_quantity

\* wb_row_data["заказы"]: the day's orders that are not cancelled when there
\* are any, else the day's realized sales; the funnel's orders, when positive.
OrderCount(date_data, orders_by_date, funnel_by_date) ==
    IF today_str \in DOMAIN funnel_by_date /\ funnel_by_date[today_str].orders > 0
    THEN funnel_by_date[today_str].orders
    ELSE IF today_str \in DOMAIN orders_by_date
         THEN orders_by_date[today_str].count
    ELSE date_data.total_quantity

\* Mutant: CTR whenever there are impressions.
CtrKey_AnyClicks(adv) ==
    Key(adv.impressions > 0, "CTR",
        Frac(adv.clicks * 100, IF adv.impressions > 0 THEN adv.impressions ELSE 1))

\* if adv["clicks"] > 0 and adv["impressions"] > 0:
\*     wb_row_data["CTR"] = (adv["clicks"] / adv["impressions"]) * 100
CtrKey(adv) ==
    Key(adv.clicks > 0 /\ adv.impressions > 0, "CTR",
        Frac(adv.clicks * 100, IF adv.impressions > 0 THEN adv.impressions ELSE 1))

\* "цена клика АУКЦ", "цена клика АРК" and "цена клика": the stored price of
\* the channel when positive, else the channel's spend per click; the general
\* price only when the day has clicks.
ClickPriceKeys(adv) ==
    (IF adv.click_price_auc.num > 0
     THEN "tsena_klika_AUKTS" :> adv.click_price_auc
     ELSE Key(adv.clicks > 0 /\ adv.cost_auc > 0, "tsena_klika_AUKTS",
              Frac(adv.cost_auc, IF adv.clicks > 0 THEN adv.clicks ELSE 1)))
    @@ (IF adv.click_price_ark.num > 0
        THEN "tsena_klika_ARK" :> adv.click_price_ark
        ELSE Key(adv.clicks > 0 /\ adv.cost_ark > 0, "tsena_klika_ARK",
                 Frac(adv.cost_ark, IF adv.clicks > 0 THEN adv.clicks ELSE 1)))
    @@ (IF adv.clicks <= 0 THEN <<>>
        ELSE IF adv.click_price_auc.num > 0 THEN "tsena_klika" :> adv.click_price_auc
        ELSE IF adv.click_price_ark.num > 0 THEN "tsena_klika" :> adv.click_price_ark
        ELSE IF adv.cost_auc > 0 THEN "tsena_klika" :> Frac(adv.cost_auc, adv.clicks)
        ELSE IF adv.cost_ark > 0 THEN "tsena_klika" :> Frac(adv.cost_ark, adv.clicks)
        ELSE <<>>)

\* The advert keys of wb_row_data, for the day's adv = advert_by_date[today_str].
AdvertKeys(adv) ==
    Key(TRUE, "pokazy", adv.impressions)
    @@ Key(TRUE, "kliki", adv.clicks)
    @@ CtrKey(adv)
    @@ ClickPriceKeys(adv)
    @@ Key(TRUE, "raskhod_AUKTS", adv.cost_auc)
    @@ Key(TRUE, "raskhod_ARK", adv.cost_ark)

\* wb_row_data of the day.
BuildRow(date_data, orders_by_date, stocks, advert_by_date, funnel_by_date) ==
    LET total_stock == TotalStock(stocks, date_data.articles)
    IN  [K_den |-> date_data.total_price,
         Kassa_den |-> date_data.total_price,
         Kassa_mesyac |-> month_total,
         zakazy |-> OrderCount(date_data, orders_by_date, funnel_by_date)]
        @@ Key(date_data.sales # <<>>, "TSENA_tovara",
               Frac(SumPriceWithDisc(date_data.sales),
                    IF date_data.sales # <<>> THEN Len(date_data.sales) ELSE 1))
        @@ Key(total_stock > 0, "ostatok_tovara_na_sklade", total_stock)
        @@ Key(total_stock > 0, "khran_den", Round2(total_stock * 15, 100))
        @@ (IF today_str \in DOMAIN advert_by_date
            THEN AdvertKeys(advert_by_date[today_str]) ELSE <<>>)
        @@ (IF today_str \in DOMAIN funnel_by_date
            THEN Key(TRUE, "pereshli_v_kartochku", funnel_by_date[today_str].card_views)
                 @@ Key(TRUE, "korzin", funnel_by_date[today_str].baskets)
            ELSE <<>>)

\* ============================================================ ExcelHandler
\* --- text. A column name is a sequence of characters; the Cyrillic letters of
\* the source are written with Latin tokens ("ts" is one letter), the Latin
\* letters of "CTR" as "lat C", "lat T", "lat R".
\* `needle in hay`
Contains(hay, needle) ==
    \E i \in 0..(Len(hay) - Len(needle)) : SubSeq(hay, i + 1, i + Len(needle)) = needle

\* str.lower(), for the capital letters the column names use
ToLower ==
    ("A" :> "a") @@ ("E" :> "e") @@ ("K" :> "k") @@ ("M" :> "m") @@ ("N" :> "n") @@ ("R" :> "r") @@ ("Ts" :> "ts") @@ ("U" :> "u") @@ ("lat C" :> "lat c") @@ ("lat R" :> "lat r") @@ ("lat T" :> "lat t")

Lower(s) == [i \in 1..Len(s) |-> IF s[i] \in DOMAIN ToLower THEN ToLower[s[i]] ELSE s[i]]

\* The least and the greatest number of a non-empty set of numbers.
Min(S) == CHOOSE x \in S : \A y \in S : x <= y
Max(S) == CHOOSE x \in S : \A y \in S : x >= y

\* str.strip(): from the first to the last character that is not white space
Strip(s) ==
    LET black == { i \in 1..Len(s) : s[i] \notin {" ", "\n"} }
    IN  IF black = {} THEN <<>> ELSE SubSeq(s, Min(black), Max(black))

\* s.replace('\n', ' ').replace('\r', ' ').strip()
Normalized(s) == Strip([i \in 1..Len(s) |-> IF s[i] = "\n" THEN " " ELSE s[i]])

\* --- cells. A cell is empty (None in the sheet, NaN in the DataFrame), a
\* number, or a text.
BlankCell == [kind |-> "blank", num |-> Zero, text |-> <<>>]
NumCell(f) == [kind |-> "num", num |-> f, text |-> <<>>]
StrCell(t) == [kind |-> "str", num |-> Zero, text |-> t]

\* The cells of a row, one per column, as a list.
Cells(row) == SubSeq(row, 1, Len(row))

\* pd.notna(v) and str(v).strip() != ""
IsFilled(c) == c.kind = "num" \/ (c.kind = "str" /\ Strip(c.text) # <<>>)

\* The columns of a file made without a template (_get_template_columns).
DefaultColumns ==
    << <<"a", "k", "k", "/", "d", "a", "t", "a">>,
       <<"s", "t", "a", "v", "k", "a", "/", "r", "e", "k", "l", "a", "m", "a">>,
       <<"k", "o", "m", "m", "e", "n", "t", "a", "r", "i", "j">>,
       <<"K", "a", "s", "s", "a", " ", "m", "e", "s", "ya", "ts">>,
       <<"K", "a", "s", "s", "a", " ", "d", "e", "n", "'">>,
       <<"p", "o", "k", "a", "z", "y", "/">>,
       <<"k", "l", "i", "k", "i">>,
       <<"lat C", "lat T", "lat R">>,
       <<"ts", "e", "n", "a", " ", "k", "l", "i", "k", "a">>,
       <<"r", "a", "s", "kh", "o", "d", " ", "A", "U", "K", "Ts">>,
       <<"ts", "e", "n", "a", " ", "k", "l", "i", "k", "a", " ", "A", "R", "K">>,
       <<"r", "a", "s", "kh", "o", "d", " ", "A", "R", "K">>,
       <<"p", "e", "r", "e", "sh", "l", "i", " ", "v", " ", "k", "a", "r", "t", "o", "ch", "k", "u">>,
       <<"k", "o", "r", "z", "i", "n">>,
       <<"z", "a", "k", "a", "z", "y">>,
       <<"kh", "r", "a", "n", " ", "d", "e", "n", "'">>,
       <<"M", " ", "s", " ", "1", " ", "sh", "t", "\n", "n", "a", "sh", "i", " ", "d", "a", "n", "n", "y", "e">>,
       <<"i", "t", "o", "g", "o", " ", "p", "r", "i", "b", "y", "l", "'">>,
       <<"Ts", "E", "N", "A", " ", "\n", "t", "o", "v", "a", "r", "a">>,
       <<"o", "s", "t", "a", "t", "o", "k", " ", "t", "o", "v", "a", "r", "a", " ", "n", "a", " ", "s", "k", "l", "a", "d", "e">> >>

\* _get_manual_fields()
ManualFields ==
    << <<"s", "t", "a", "v", "k", "a", "/", "r", "e", "k", "l", "a", "m", "a">>,
       <<"k", "o", "m", "m", "e", "n", "t", "a", "r", "i", "j">>,
       <<"K", "a", "s", "s", "a", " ", "m", "e", "s", "ya", "ts">>,
       <<"M", " ", "s", " ", "1", " ", "sh", "t", "\n", "n", "a", "sh", "i", " ", "d", "a", "n", "n", "y", "e">>,
       <<"M", " ", "s", " ", "1", " ", "sh", "t", " ", "n", "a", "sh", "i", " ", "d", "a", "n", "n", "y", "e">> >>

\* The words the column names are searched for.
Words ==
    [ akk_data |-> <<"a", "k", "k", "/", "d", "a", "t", "a">>,
      stavka |-> <<"s", "t", "a", "v", "k", "a">>,
      reklama |-> <<"r", "e", "k", "l", "a", "m", "a">>,
      kommentarij |-> <<"k", "o", "m", "m", "e", "n", "t", "a", "r", "i", "j">>,
      kassa_mesyac |-> <<"k", "a", "s", "s", "a", " ", "m", "e", "s", "ya", "ts">>,
      m_s_1_sht |-> <<"m", " ", "s", " ", "1", " ", "sh", "t">>,
      nashi_dannye |-> <<"n", "a", "sh", "i", " ", "d", "a", "n", "n", "y", "e">>,
      kassa_den |-> <<"k", "a", "s", "s", "a", " ", "d", "e", "n", "'">>,
      pokazy |-> <<"p", "o", "k", "a", "z", "y">>,
      kliki |-> <<"k", "l", "i", "k", "i">>,
      klika |-> <<"k", "l", "i", "k", "a">>,
      CTR |-> <<"lat C", "lat T", "lat R">>,
      tsena_klika |-> <<"ts", "e", "n", "a", " ", "k", "l", "i", "k", "a">>,
      aukts |-> <<"a", "u", "k", "ts">>,
      ark |-> <<"a", "r", "k">>,
      raskhod_aukts |-> <<"r", "a", "s", "kh", "o", "d", " ", "a", "u", "k", "ts">>,
      raskhod_ark |-> <<"r", "a", "s", "kh", "o", "d", " ", "a", "r", "k">>,
      pereshli_v_kartochku |-> <<"p", "e", "r", "e", "sh", "l", "i", " ", "v", " ", "k", "a", "r", "t", "o", "ch", "k", "u">>,
      korzin |-> <<"k", "o", "r", "z", "i", "n">>,
      zakazy |-> <<"z", "a", "k", "a", "z", "y">>,
      khran_den |-> <<"kh", "r", "a", "n", " ", "d", "e", "n", "'">>,
      itogo_pribyl |-> <<"i", "t", "o", "g", "o", " ", "p", "r", "i", "b", "y", "l", "'">>,
      tsena |-> <<"ts", "e", "n", "a">>,
      tovara |-> <<"t", "o", "v", "a", "r", "a">>,
      ostatok |-> <<"o", "s", "t", "a", "t", "o", "k">>,
      sklade |-> <<"s", "k", "l", "a", "d", "e">> ]


\* _is_manual_field(column_name)
is_manual_field(column_name) ==
    LET low == Lower(column_name)
    IN  \/ \E i \in 1..Len(ManualFields) :
               Contains(column_name, ManualFields[i]) \/ Contains(ManualFields[i], column_name)
        \/ Contains(low, Words.stavka) /\ Contains(low, Words.reklama)
        \/ Contains(low, Words.kommentarij)
        \/ Contains(low, Words.kassa_mesyac)
        \/ Contains(low, Words.m_s_1_sht) /\ Contains(low, Words.nashi_dannye)

\* Mutant: a key wb_data does not have reads as the number 0.
WbGet_ZeroForMissing(wb_data, key) ==
    IF key \in DOMAIN wb_data THEN NumCell(wb_data[key]) ELSE NumCell(Zero)


\* wb_data.get(key, ""): the number as a cell, or nothing
WbGet(wb_data, key) ==
    IF key \in DOMAIN wb_data THEN NumCell(wb_data[key]) ELSE BlankCell

\* The if/elif chain of _fill_wb_fields: the keys of wb_data the column is
\* read from, the first that is there giving the value; none for a column no
\* branch takes.
fill_keys(col_str) ==
    LET low == Lower(col_str)
        has(w) == Contains(low, w)
    IN  IF has(Words.kassa_den) THEN <<"Kassa_den">>
        ELSE IF has(Words.pokazy) THEN <<"pokazy">>
        ELSE IF has(Words.kliki) /\ ~has(Words.klika) THEN <<"kliki">>
        ELSE IF Strip(col_str) = Words.CTR THEN <<"CTR">>
        ELSE IF has(Words.tsena_klika) /\ has(Words.aukts) THEN <<"tsena_klika_AUKTS">>
        ELSE IF has(Words.tsena_klika) /\ has(Words.ark) THEN <<"tsena_klika_ARK">>
        ELSE IF has(Words.tsena_klika) /\ ~has(Words.aukts) /\ ~has(Words.ark)
             THEN <<"tsena_klika">>
        ELSE IF has(Words.raskhod_aukts) THEN <<"raskhod_AUKTS">>
        ELSE IF has(Words.raskhod_ark) THEN <<"raskhod_ARK">>
        ELSE IF has(Words.pereshli_v_kartochku) THEN <<"pereshli_v_kartochku">>
        ELSE IF has(Words.korzin) THEN <<"korzin">>
        ELSE IF has(Words.zakazy) THEN <<"zakazy">>
        ELSE IF has(Words.khran_den) THEN <<"khran_den">>
        ELSE IF has(Words.itogo_pribyl) THEN <<"itogo_pribyl">>
        ELSE IF has(Words.tsena) /\ has(Words.tovara) THEN <<"TSENA_tovara">>
        ELSE IF has(Words.ostatok) /\ has(Words.sklade)
             THEN <<"ostatok_tovara_na_sklade", "ostatok_tovar">>
        ELSE <<>>

\* The if/elif chain of _update_wb_fields: the key of wb_data the column is
\* read from; none for a column no branch takes (new_value stays None).
update_keys(col_str) ==
    LET low == Lower(col_str)
        has(w) == Contains(low, w)
    IN  IF has(Words.kassa_den) THEN <<"Kassa_den">>
        ELSE IF has(Words.pokazy) THEN <<"pokazy">>
        ELSE IF has(Words.kliki) /\ ~has(Words.klika) THEN <<"kliki">>
        ELSE IF Strip(col_str) = Words.CTR THEN <<"CTR">>
        ELSE IF has(Words.tsena_klika) /\ has(Words.aukts) THEN <<"tsena_klika_AUKTS">>
        ELSE IF has(Words.tsena_klika) /\ has(Words.ark) THEN <<"tsena_klika_ARK">>
        ELSE IF has(Words.tsena_klika) /\ ~has(Words.aukts) /\ ~has(Words.ark)
             THEN <<"tsena_klika">>
        ELSE IF has(Words.raskhod_aukts) THEN <<"raskhod_AUKTS">>
        ELSE IF has(Words.raskhod_ark) THEN <<"raskhod_ARK">>
        ELSE IF has(Words.pereshli_v_kartochku) THEN <<"pereshli_v_kartochku">>
        ELSE IF has(Words.korzin) THEN <<"korzin">>
        ELSE IF has(Words.zakazy) THEN <<"zakazy">>
        ELSE IF has(Words.khran_den) THEN <<"khran_den">>
        ELSE IF has(Words.itogo_pribyl) THEN <<"itogo_pribyl">>
        ELSE IF has(Words.tsena) /\ has(Words.tovara) THEN <<"TSENA_tovara">>
        ELSE IF has(Words.ostatok) THEN <<"ostatok_tovar">>
        ELSE <<>>

\* "акк/дата" in str(col).lower() or "акк/дата" in str(col)
IsDateName(name) == Contains(Lower(name), Words.akk_data) \/ Contains(name, Words.akk_data)

\* write_data's test of a header against a DataFrame column: the names equal
\* once normalized, or equal in lower case, or one inside the other.
HeaderMatches(col_name, df_col) ==
    \/ Normalized(col_name) = Normalized(df_col)
    \/ Lower(Normalized(col_name)) = Lower(Normalized(df_col))
    \/ Contains(df_col, col_name)
    \/ Contains(col_name, df_col)

\* The names a column can have: those of the file _create_from_template makes.
ColumnNames == { DefaultColumns[i] : i \in 1..Len(DefaultColumns) }

\* What the code finds out from a column's name alone, name by name: whether
\* _is_manual_field holds, whether it is the date's as a DataFrame column and
\* as a header cell, the keys of the two chains, and the DataFrame columns
\* write_data matches the header cell of that name with.
Column ==
    [c \in ColumnNames |->
        [is_manual_field |-> is_manual_field(c),
         is_date |-> IsDateName(c),
         is_date_header |-> IsDateName(Strip(c)),
         fill_keys |-> fill_keys(c),
         update_keys |-> update_keys(c),
         matches |-> { d \in ColumnNames : HeaderMatches(Strip(c), d) }]]

\* The first position of a list of truth values that holds TRUE; 0 if none.
FirstOf(flags) ==
    LET hits == { i \in 1..Len(flags) : flags[i] }
    IN  IF hits = {} THEN 0 ELSE Min(hits)

\* wb_data.get(key, wb_data.get(other, "")), key after key
fill_value(keys, wb_data) ==
    LET there == FirstOf(Cells([k \in 1..Len(keys) |-> keys[k] \in DOMAIN wb_data]))
    IN  IF there = 0 THEN BlankCell ELSE WbGet(wb_data, keys[there])

\* _fill_wb_fields(row, columns, wb_data): every column that is not manual
\* takes its value of wb_data, or NaN.
fill_wb_fields(row, columns, wb_data) ==
    Cells([i \in 1..Len(columns) |->
              IF Column[columns[i]].is_manual_field THEN row[i]
              ELSE fill_value(Column[columns[i]].fill_keys, wb_data)])

\* _update_wb_fields(df, row_idx, wb_data), on the cells of the row: a column
\* a branch takes is set to safe_set_value(wb_data.get(key, ""), col).
update_wb_fields(row, columns, wb_data) ==
    Cells([i \in 1..Len(columns) |->
              LET keys == Column[columns[i]].update_keys
              IN  IF Column[columns[i]].is_manual_field THEN row[i]
                  ELSE IF keys # <<>> THEN WbGet(wb_data, keys[1])
                  ELSE row[i]])

\* --- the workbook. A file is its header row (the column names) and its data
\* rows, each a cell per column; a DataFrame is the same, columns and rows.
\* read_data(), for a file that exists and can be read:
\* pd.read_excel(self.file_path, engine='openpyxl', header=0)
read_data(f) == [columns |-> f.header, rows |-> f.rows]

\* str(n) for a whole number n >= 0
RECURSIVE IntStr(_)
IntStr(n) == IF n < 10 THEN <<DigitChar(n)>> ELSE IntStr(n \div 10) \o <<DigitChar(n % 10)>>

\* str(value) of a cell of the date column (a text; the whole part of a number)
CellStr(c) ==
    IF c.kind = "str" THEN c.text
    ELSE IF c.kind = "num" THEN IntStr(c.num.num \div c.num.den)
    ELSE <<"n", "a", "n">>

\* The value write_data stores for a value that is not empty: a number as it
\* is, a text of digits as the number it spells, any other text as it is.
StoredValue(c) ==
    IF c.kind = "str" /\ IsDigits(c.text) THEN NumCell(Frac(DecimalValue(c.text), 1))
    ELSE c

\* excel_columns: for every header cell in turn, the first DataFrame column
\* that matches it is bound to that cell's column, a later cell replacing an
\* earlier binding of the same DataFrame column. For every DataFrame column,
\* the header cell it ends bound to; 0 for a column that is not in the dict.
excel_columns(header, columns) ==
    LET first == Cells([i \in 1..Len(header) |->
                          FirstOf(Cells([j \in 1..Len(columns) |->
                                            columns[j] \in Column[header[i]].matches]))])
    IN  Cells([j \in 1..Len(columns) |->
                  Max({0} \cup { i \in 1..Len(header) : first[i] = j })])

\* For every header cell, the DataFrame column the loop over excel_columns
\* writes under it (the date's columns are passed over); 0 if none.
written_from(bind, columns, width) ==
    Cells([i \in 1..width |->
              FirstOf(Cells([j \in 1..Len(columns) |->
                                bind[j] = i /\ ~Column[columns[j]].is_date]))])

\* Mutant: the first row takes the date of the last call whenever there is one.
date_cell_LastDateFirst(value, r, last_date) ==
    IF last_date # <<>> /\ r = 1 THEN StrCell(last_date)
    ELSE IF value.kind # "blank" /\ Strip(CellStr(value)) # <<>>
         THEN StrCell(CellStr(value))
    ELSE BlankCell

\* The date cell write_data leaves in row r: the DataFrame's date as a text,
\* or for the first row, when that is empty, the date of the last call.
date_cell(value, r, last_date) ==
    IF value.kind # "blank" /\ Strip(CellStr(value)) # <<>> THEN StrCell(CellStr(value))
    ELSE IF last_date # <<>> /\ r = 1 THEN StrCell(last_date)
    ELSE BlankCell

\* The cell write_data leaves in row r under header cell i.
written_cell(row, r, i, source, date_col, date_df, last_date) ==
    IF source # 0 /\ row[source].kind # "blank" /\ row[source] # StrCell(<<>>)
    THEN StoredValue(row[source])
    ELSE IF date_col # 0 /\ date_df # 0 /\ i = date_col
         THEN date_cell(row[date_df], r, last_date)
    ELSE BlankCell

\* --- formatting. The style of a cell, as far as the code tells styles
\* apart: none (has_style is False), the one to_excel gives a header cell, or
\* one of the template's, of its header row or of a data row.
Unstyled == "unstyled"
PandasHeader == "pandas header"
TemplateHeader == "template header"
TemplateData == "template data"

\* template_row = 2 if ws.max_row >= 2 else 1, max_row being the sheet's after
\* delete_rows and after ws.cell(row=excel_row, ...) made the cell to write.
template_row(max_row, excel_row) == IF Max({max_row, excel_row}) >= 2 THEN 2 ELSE 1

\* The style the cell of excel_row ends with: the header cell's when
\* template_row is 1; when it is 2, that of the cell of row 2, which this
\* write_data made itself (the rows were deleted) and gave no style.
written_style(max_row, excel_row, header_cell_style) ==
    IF template_row(max_row, excel_row) = 1 THEN header_cell_style ELSE Unstyled

\* write_data(df) when nothing raises: the data rows are deleted and written
\* again from df, the date column first, then every bound column whose value
\* is not empty; wb.save(self.file_path).
write_data(f, df, last_date) ==
    LET source == written_from(excel_columns(f.header, df.columns), df.columns,
                               Len(f.header))
        date_col == FirstOf(Cells([i \in 1..Len(f.header) |->
                                     Column[f.header[i]].is_date_header]))
        date_df == FirstOf(Cells([j \in 1..Len(df.columns) |->
                                    Column[df.columns[j]].is_date]))
    IN  [condition |-> "ok",
         header |-> f.header,
         header_style |-> f.header_style,
         rows |-> Cells([r \in 1..Len(df.rows) |->
                            Cells([i \in 1..Len(f.header) |->
                                      written_cell(df.rows[r], r, i, source[i],
                                                   date_col, date_df, last_date)])]),
         styles |-> Cells([r \in 1..Len(df.rows) |->
                              Cells([i \in 1..Len(f.header) |->
                                        written_style(1, r + 1, f.header_style[i])])])]

\* write_data(df) when load_workbook, a cell's assignment or wb.save raises:
\* df.to_excel(self.file_path, index=False, engine='openpyxl') makes the file
\* anew: df's column names in to_excel's header style, df's values below.
to_excel(df) ==
    [condition |-> "ok",
     header |-> df.columns,
     header_style |-> Cells([i \in 1..Len(df.columns) |-> PandasHeader]),
     rows |-> Cells([r \in 1..Len(df.rows) |->
                        Cells([i \in 1..Len(df.columns) |->
                                  IF df.rows[r][i] = StrCell(<<>>) THEN BlankCell
                                  ELSE df.rows[r][i]])]),
     styles |-> Cells([r \in 1..Len(df.rows) |->
                          Cells([i \in 1..Len(df.columns) |-> Unstyled])])]

\* date.split('.')[0]
DayToken(date) ==
    LET dots == { i \in 1..Len(date) : date[i] = "." }
    IN  IF dots = {} THEN date ELSE SubSeq(date, 1, Min(dots) - 1)

\* manual_data is None or a dict: here the sequence of its (key, value) pairs.
\* The value of the first key that is inside the column's name or holds it.
ManualValue(col, manual_data) ==
    LET key == FirstOf(Cells([k \in 1..Len(manual_data) |->
                               \/ Contains(col, manual_data[k].key)
                               \/ Contains(manual_data[k].key, col)]))
    IN  IF key = 0 THEN [found |-> FALSE, value |-> BlankCell]
        ELSE [found |-> TRUE, value |-> manual_data[key].value]

\* Mutant: a manual cell takes the value handed in even when it is filled.
KeepManual_Overwrites(old, col, manual_data) ==
    IF ManualValue(col, manual_data).found
    THEN ManualValue(col, manual_data).value
    ELSE old

\* The manual cell of an existing row: kept when filled, else the value
\* handed in for it, if any.
KeepManual(old, col, manual_data) ==
    IF IsFilled(old) THEN old
    ELSE IF ManualValue(col, manual_data).found
         THEN ManualValue(col, manual_data).value
    ELSE old

\* The position of the column df["акк/дата"].
DateColumn(columns) == Min({ i \in 1..Len(columns) : columns[i] = Words.akk_data })

\* Mutant: the row is looked up by the whole date, letter for letter.
ExistingRow_Exact(df, date) ==
    FirstOf(Cells([r \in 1..Len(df.rows) |->
                      df.rows[r][DateColumn(df.columns)] = StrCell(date)]))

\* The row add_daily_data takes for the date's: the first whose date cell
\* holds the day token; 0 when there is none.
ExistingRow(df, date) ==
    LET col == DateColumn(df.columns)
        token == DayToken(date)
    IN  FirstOf(Cells([r \in 1..Len(df.rows) |->
                          /\ df.rows[r][col].kind # "blank"
                          /\ Contains(CellStr(df.rows[r][col]), token)]))

\* add_daily_data's new row: empty texts, the date, the manual values handed
\* in, the values of wb_data, and the date again, which _fill_wb_fields wiped.
NewRow(columns, date, wb_data, manual_data) ==
    LET date_col_name == FirstOf(Cells([i \in 1..Len(columns) |->
                                               Column[columns[i]].is_date]))
        dated == Cells([i \in 1..Len(columns) |->
                           IF i = date_col_name THEN StrCell(date)
                           ELSE IF manual_data # <<>> /\ Column[columns[i]].is_manual_field
                                    /\ ManualValue(columns[i], manual_data).found
                                THEN ManualValue(columns[i], manual_data).value
                           ELSE StrCell(<<>>)])
        filled == fill_wb_fields(dated, columns, wb_data)
    IN  Cells([i \in 1..Len(columns) |->
                  IF i = date_col_name THEN StrCell(date)
                  ELSE filled[i]])

\* The DataFrame add_daily_data hands to write_data: df with the existing row
\* updated, or with the new row at its end.
upserted(df, existing_row_idx, date, wb_data, manual_data) ==
    LET kept == Cells([i \in 1..Len(df.columns) |->
                          IF manual_data # <<>> /\ Column[df.columns[i]].is_manual_field
                          THEN KeepManual(df.rows[existing_row_idx][i], df.columns[i],
                                          manual_data)
                          ELSE df.rows[existing_row_idx][i]])
    IN  IF existing_row_idx # 0
        THEN [df EXCEPT !.rows[existing_row_idx] =
                            update_wb_fields(kept, df.columns, wb_data)]
        ELSE [df EXCEPT !.rows =
                            Append(@, NewRow(df.columns, date, wb_data, manual_data))]

\* add_daily_data(date, wb_data, manual_data): the file it leaves.
add_daily_data(f, date, wb_data, manual_data) ==
    write_data(f, upserted(read_data(f), ExistingRow(read_data(f), date),
                           date, wb_data, manual_data), date)

\* update_row(date, updates), updates being the (key, value) pairs of the
\* dict: `mask = df["акк/дата"] == date`; with no row in the mask it raises
\* ValueError; else `df.loc[mask, key] = value` for every key that is a column
\* of df, and write_data(df). last_date is self._last_date, which update_row
\* leaves as it is.
update_row(f, date, updates, last_date) ==
    LET df == read_data(f)
        col == DateColumn(df.columns)
        mask == { r \in 1..Len(df.rows) : df.rows[r][col] = StrCell(date) }
        set(old, column) ==
            LET at == { k \in 1..Len(updates) : updates[k].key = column }
            IN  IF at = {} THEN old ELSE updates[Max(at)].value
        updated == Cells([r \in 1..Len(df.rows) |->
                             IF r \in mask
                             THEN Cells([i \in 1..Len(df.columns) |->
                                            set(df.rows[r][i], df.columns[i])])
                             ELSE df.rows[r]])
    IN  IF mask # {}
        THEN [file |-> write_data(f, [df EXCEPT !.rows = updated], last_date),
              raised |-> FALSE]
        ELSE [file |-> f, raised |-> TRUE]

\* No file at the path: no ExcelHandler has been made, or the file was removed.
NoFile ==
    [condition |-> "absent", header |-> <<>>, header_style |-> <<>>,
     rows |-> <<>>, styles |-> <<>>]

\* _create_from_template(), which __init__ always calls. With no template at
\* template_path: pd.DataFrame(columns=columns).to_excel(self.file_path);
\* with one: shutil.copy2(self.template_path, self.file_path).
create_from_template(template_file) ==
    IF template_file.condition = "absent"
    THEN to_excel([columns |-> DefaultColumns, rows |-> <<>>])
    ELSE template_file

\* read_data() as a whole: the file it leaves, how often it made the file anew
\* and whether it raised. A file that is absent or of size 0 is made anew and
\* read inside the try (lines 135-136, 141-143); if that read raises, or the
\* read at line 146 of a file that cannot be read does, the except clause
\* removes the file, makes it anew (line 157) and reads it outside any try
\* (line 158). read_in_try and read_in_except: whether those reads succeed.
read_data_call(f, template_file, read_in_try, read_in_except) ==
    IF f.condition = "ok" THEN [file |-> f, recreated |-> 0, raised |-> FALSE]
    ELSE IF f.condition \in {"absent", "empty"} /\ read_in_try
         THEN [file |-> create_from_template(template_file), recreated |-> 1,
               raised |-> FALSE]
    ELSE [file |-> create_from_template(template_file),
          recreated |-> IF f.condition \in {"absent", "empty"} THEN 2 ELSE 1,
          raised |-> ~read_in_except]

\* wb_row_data as add_daily_data's wb_data: every number a quotient (the keys
\* parse_command computes by a division or a rounding are quotients already).
AsNumbers(wb_data) ==
    [k \in DOMAIN wb_data |->
        IF k \in {"CTR", "tsena_klika", "tsena_klika_AUKTS", "tsena_klika_ARK",
                  "TSENA_tovara", "khran_den"}
        THEN wb_data[k] ELSE Frac(wb_data[k], 1)]

\* ------------------------------------------------- parse_command's handlers
\* The message parse_command's except clauses compose for an exception, by kind
\* (ValueError first, which json's and requests' JSONDecodeError are too).
ErrorMessage(e) ==
    IF e.type \in {"ValueError", "JSONDecodeError"} THEN "date_format"
    ELSE IF e.type = "HTTPError" THEN
        (IF e.status = 429 THEN "rate_limit"
         ELSE IF e.status = 401 THEN "auth"
         ELSE IF e.status = 403 THEN "forbidden"
         ELSE "http")
    ELSE IF e.type = "Timeout" THEN "timeout"
    ELSE "generic"

\* What a _safe_reply may end in: the message sent, TimedOut/NetworkError on
\* each of its attempts, or another TelegramError.
SafeReplyOutcomes == {"sent", "NetworkError", "TelegramError"}

Reply(msg, outcome) == [msg |-> msg, outcome |-> outcome]

\* The except clauses of parse_command for exception e, `outcome` being what
\* the clause's _safe_reply ends in: a Telegram network error is only logged;
\* the last clause swallows a failed reply, the others let it escape.
HandleError(rs, e, outcome) ==
    IF e.type = "NetworkError" THEN [replies |-> rs, escaped |-> NoError]
    ELSE [replies |-> Append(rs, Reply(ErrorMessage(e), outcome)),
          escaped |-> IF outcome = "sent" \/ ErrorMessage(e) = "generic"
                      THEN NoError ELSE Err(outcome, 0)]

\* --- sending, attempt by attempt
\* _safe_reply(update, text, max_retries=3) and the loop about reply_document
\* (max_attempts = 3).
safe_reply_max_retries == 3
max_attempts == 3

\* What Telegram does with one reply_text or reply_document.
TelegramAnswers == {"ok", "NetworkError", "TelegramError"}

\* Mutant: `attempt < max_retries`, one attempt more before it raises.
RECURSIVE safe_reply_OneMoreAttempt(_, _)
safe_reply_OneMoreAttempt(answers, attempt) ==
    IF answers[attempt + 1] = "ok" THEN [outcome |-> "sent", attempts |-> attempt + 1]
    ELSE IF answers[attempt + 1] = "NetworkError" /\ attempt < safe_reply_max_retries
         THEN safe_reply_OneMoreAttempt(answers, attempt + 1)
    ELSE [outcome |-> answers[attempt + 1], attempts |-> attempt + 1]

\* _safe_reply from the attempt `attempt` on, answers[k] being what the k-th
\* reply_text does: it returns once sent, goes on after a TimedOut or
\* NetworkError while attempts are left, and raises that error on the last
\* attempt, and any other TelegramError at once.
RECURSIVE safe_reply(_, _)
safe_reply(answers, attempt) ==
    IF answers[attempt + 1] = "ok" THEN [outcome |-> "sent", attempts |-> attempt + 1]
    ELSE IF answers[attempt + 1] = "NetworkError" /\ attempt < safe_reply_max_retries - 1
         THEN safe_reply(answers, attempt + 1)
    ELSE [outcome |-> answers[attempt + 1], attempts |-> attempt + 1]

\* The loop about reply_document: every error is tried again while attempts
\* are left; the last one is raised into `except Exception` beside it.
RECURSIVE reply_document(_, _)
reply_document(answers, attempt) ==
    IF answers[attempt + 1] = "ok" THEN [outcome |-> "sent", attempts |-> attempt + 1]
    ELSE IF attempt < max_attempts - 1 THEN reply_document(answers, attempt + 1)
    ELSE [outcome |-> answers[attempt + 1], attempts |-> attempt + 1]

\* The ways a _safe_reply and a sending of the file can go.
AnswerSeqs == [1..(safe_reply_max_retries + 1) -> TelegramAnswers]
SafeReplyRuns == { safe_reply(answers, 0) : answers \in AnswerSeqs }
DocumentRuns == { reply_document(answers, 0) : answers \in AnswerSeqs }

\* A message with the way its sending went.
Attempted(msg, run) == [msg |-> msg, outcome |-> run.outcome, attempts |-> run.attempts]

\* A template with the default columns and a header row of its own style, and
\* the same with one formatted row of data below the header.
StyledTemplate ==
    [condition |-> "ok",
     header |-> DefaultColumns,
     header_style |-> Cells([i \in 1..Len(DefaultColumns) |-> TemplateHeader]),
     rows |-> <<>>,
     styles |-> <<>>]

TemplateRow ==
    Cells([i \in 1..Len(DefaultColumns) |->
              IF i = 1 THEN StrCell(<<"0", "1", ".", "0", "1", ".", "2", "0", "2", "4">>)
              ELSE BlankCell])

FilledTemplate ==
    [StyledTemplate EXCEPT
        !.rows = <<TemplateRow>>,
        !.styles = <<Cells([i \in 1..Len(DefaultColumns) |-> TemplateData])>>]

\* What a call of the ExcelHandler did: which method it was, how often
\* read_data made the file anew, whether the call raised, and whether
\* write_data saved the workbook it had loaded (and not by to_excel).
NoCall == [op |-> "none", recreated |-> 0, raised |-> FALSE, formatted |-> FALSE]
Constructed == [op |-> "__init__", recreated |-> 0, raised |-> FALSE, formatted |-> FALSE]
Upserted(recreated, raised, formatted) ==
    [op |-> "add_daily_data", recreated |-> recreated, raised |-> raised,
     formatted |-> formatted]
RowUpdated(date, updates, raised) ==
    [op |-> "update_row", recreated |-> 0, raised |-> raised, formatted |-> TRUE,
     date |-> date, updates |-> updates]

\* ------------------------------------------------------------------ state
VARIABLES
    \* one call of _make_request, iteration by iteration
    endpoint,       \* the endpoint of the call
    attempt,        \* the loop variable
    requests,       \* requests.get calls made
    sleeps,         \* the time.sleep calls made, in order
    responses,      \* what each requests.get yielded, in order
    call,           \* "idle", "running", "returned", "raised"
    result,         \* the list returned
    error,          \* the exception raised
    \* one parse_command request
    pc,             \* where parse_command is
    sales_data, stocks_data, orders_data, advert_data, funnel_data,
    requested,      \* endpoints _make_request was called for
    served,         \* per endpoint, the 200 body the backend answered with
    swallowed,      \* the fetch errors a local try/except took, by endpoint
    fatal,          \* the exception that reached parse_command's handlers
    wb_row_data,    \* the aggregate of the day
    add_daily_data_calls,   \* the (date, wb_data) handed to ExcelHandler
    replies,        \* the messages parse_command tried to send, in order
    escaped,        \* the exception that left parse_command unhandled
    \* the ExcelHandler
    file,           \* the workbook at self.file_path: header and data rows
    template,       \* the workbook at self.template_path
    last_call       \* what the last call of the ExcelHandler did

clientVars == <<endpoint, attempt, requests, sleeps, responses, call, result, error>>
botVars == <<pc, sales_data, stocks_data, orders_data, advert_data, funnel_data,
             requested, served, swallowed, fatal, wb_row_data,
             add_daily_data_calls, replies, escaped>>
excelVars == <<file, template, last_call>>
vars == <<clientVars, botVars, excelVars>>

CallState ==
    [attempt |-> attempt, requests |-> requests, sleeps |-> sleeps,
     responses |-> responses, call |-> call, result |-> result, error |-> error]

SetCallState(c) ==
    /\ attempt' = c.attempt
    /\ requests' = c.requests
    /\ sleeps' = c.sleeps
    /\ responses' = c.responses
    /\ call' = c.call
    /\ result' = c.result
    /\ error' = c.error

BotIdle ==
    /\ pc = "idle"
    /\ sales_data = <<>> /\ stocks_data = <<>> /\ orders_data = <<>>
    /\ advert_data = <<>> /\ funnel_data = <<>>
    /\ requested = {}
    /\ served = [ep \in Endpoints |-> NoServed]
    /\ swallowed = {}
    /\ fatal = NoError
    /\ wb_row_data = <<>>
    /\ add_daily_data_calls = <<>>
    /\ replies = <<>>
    /\ escaped = NoError
    /\ file = NoFile
    /\ template = NoFile
    /\ last_call = NoCall


\* ------------------------------------------- _make_request, step by step
\* self._make_request(endpoint, params) has just been entered.
ClientInit ==
    /\ endpoint \in ClientEndpoints
    /\ attempt = NewCall.attempt
    /\ requests = NewCall.requests
    /\ sleeps = NewCall.sleeps
    /\ responses = NewCall.responses
    /\ call = NewCall.call
    /\ result = NewCall.result
    /\ error = NewCall.error
    /\ BotIdle

\* One iteration of the loop, the server answering o.
Respond(o) ==
    /\ SetCallState(CallStep(CallState, o))
    /\ UNCHANGED <<endpoint, botVars, excelVars>>

Resp200 ==
    /\ call = "running"
    /\ \E o \in Responses200(endpoint) : Respond(o)

Resp429 ==
    /\ call = "running"
    /\ \E o \in Responses429 : Respond(o)

Resp400 ==
    /\ call = "running"
    /\ Respond(ErrorResponse(400))

RespAuth ==
    /\ call = "running"
    /\ \E st \in {401, 403} : Respond(ErrorResponse(st))

Resp404 ==
    /\ call = "running"
    /\ Respond(ErrorResponse(404))

Resp5xx ==
    /\ call = "running"
    /\ Respond(ErrorResponse(500))

RespTimeout ==
    /\ call = "running"
    /\ Respond(TimeoutOutcome)

RespNetworkError ==
    /\ call = "running"
    /\ Respond(NetworkErrorOutcome)

ClientNext ==
    \/ Resp200
    \/ Resp429
    \/ Resp400
    \/ RespAuth
    \/ Resp404
    \/ Resp5xx
    \/ RespTimeout
    \/ RespNetworkError

ClientSpec == ClientInit /\ [][ClientNext]_vars

\* requests.get returns or raises within its timeout and time.sleep returns,
\* so a running call always takes its next step.
FairClientSpec == ClientSpec /\ WF_vars(ClientNext)

\* ------------------------------------------------ parse_command, step by step
\* /parse has just been received.
Init ==
    /\ endpoint = "none"
    /\ attempt = 0
    /\ requests = 0
    /\ sleeps = <<>>
    /\ responses = <<>>
    /\ call = "idle"
    /\ result = <<>>
    /\ error = NoError
    /\ pc = "start"
    /\ sales_data = <<>> /\ stocks_data = <<>> /\ orders_data = <<>>
    /\ advert_data = <<>> /\ funnel_data = <<>>
    /\ requested = {}
    /\ served = [ep \in Endpoints |-> NoServed]
    /\ swallowed = {}
    /\ fatal = NoError
    /\ wb_row_data = <<>>
    /\ add_daily_data_calls = <<>>
    /\ replies = <<>>
    /\ escaped = NoError
    /\ file = NoFile
    /\ template = NoFile
    /\ last_call = NoCall

\* Mutant: the file is sent along with the report of the error.
Fail_SendsFile(rs, e) ==
    /\ \E outcome \in SafeReplyOutcomes :
           LET h == HandleError(rs, e, outcome)
           IN  /\ replies' = Append(h.replies, Reply("document", "sent"))
               /\ escaped' = h.escaped
    /\ fatal' = e
    /\ pc' = "done"

\* Exception e reaches the except clauses and parse_command ends.
Fail(rs, e) ==
    /\ \E outcome \in SafeReplyOutcomes :
           LET h == HandleError(rs, e, outcome)
           IN  replies' = h.replies /\ escaped' = h.escaped
    /\ fatal' = e
    /\ pc' = "done"

\* The ExcelHandler is made and the "starting" message sent.
Start ==
    /\ pc = "start"
    /\ file' = create_from_template(template)
    /\ last_call' = Constructed
    /\ UNCHANGED template
    /\ \E outcome \in SafeReplyOutcomes :
           LET rs == Append(replies, Reply("starting", outcome))
           IN  IF outcome = "sent"
               THEN replies' = rs /\ pc' = "sales" /\ UNCHANGED <<fatal, escaped>>
               ELSE Fail(rs, Err(outcome, 0))
    /\ UNCHANGED <<clientVars, sales_data, stocks_data, orders_data, advert_data,
                   funnel_data, requested, served, swallowed, wb_row_data,
                   add_daily_data_calls>>

\* sales_data = self.wb_client.get_statistics(date_from_str, date_to_str)
GetStatistics ==
    /\ pc = "sales"
    /\ requested' = requested \cup {"sales"}
    /\ \E r \in SalesResults :
           IF r.call = "returned"
           THEN /\ sales_data' = r.result
                /\ served' = [served EXCEPT !["sales"] = r.body]
                /\ pc' = "stocks"
                /\ UNCHANGED <<replies, fatal, escaped>>
           ELSE /\ Fail(replies, r.error)
                /\ UNCHANGED <<sales_data, served>>
    /\ UNCHANGED <<clientVars, excelVars, stocks_data, orders_data, advert_data, funnel_data,
                   swallowed, wb_row_data, add_daily_data_calls>>

\* stocks_data = self.wb_client.get_stocks(date_from_str)
GetStocks ==
    /\ pc = "stocks"
    /\ requested' = requested \cup {"stocks"}
    /\ \E r \in StocksResults :
           IF r.call = "returned"
           THEN /\ stocks_data' = r.result
                /\ served' = [served EXCEPT !["stocks"] = r.body]
                /\ pc' = "orders"
                /\ UNCHANGED <<replies, fatal, escaped>>
           ELSE /\ Fail(replies, r.error)
                /\ UNCHANGED <<stocks_data, served>>
    /\ UNCHANGED <<clientVars, excelVars, sales_data, orders_data, advert_data, funnel_data,
                   swallowed, wb_row_data, add_daily_data_calls>>

\* orders_data = self.wb_client.get_orders(date_from_str, date_to_str)
GetOrders ==
    /\ pc = "orders"
    /\ requested' = requested \cup {"orders"}
    /\ \E r \in OrdersResults :
           IF r.call = "returned"
           THEN /\ orders_data' = r.result
                /\ served' = [served EXCEPT !["orders"] = r.body]
                /\ pc' = "advert"
                /\ UNCHANGED <<replies, fatal, escaped>>
           ELSE /\ Fail(replies, r.error)
                /\ UNCHANGED <<orders_data, served>>
    /\ UNCHANGED <<clientVars, excelVars, sales_data, stocks_data, advert_data, funnel_data,
                   swallowed, wb_row_data, add_daily_data_calls>>

\* Mutant: the advert fetch without its try/except, its error fatal like the
\* errors of the sales, stocks and orders fetches.
GetAdvertStatistics_NoTry ==
    /\ pc = "advert"
    /\ requested' = requested \cup {"advert"}
    /\ \E r \in AdvertResults :
           IF r.call = "returned"
           THEN /\ advert_data' = r.result
                /\ served' = [served EXCEPT !["advert"] = r.body]
                /\ pc' = "funnel"
                /\ UNCHANGED <<replies, fatal, escaped>>
           ELSE /\ Fail(replies, r.error)
                /\ UNCHANGED <<advert_data, served>>
    /\ UNCHANGED <<clientVars, excelVars, sales_data, stocks_data, orders_data, funnel_data,
                   swallowed, wb_row_data, add_daily_data_calls>>

\* try: advert_data = self.wb_client.get_advert_statistics(...)
\* except Exception: advert_data = []
GetAdvertStatistics ==
    /\ pc = "advert"
    /\ requested' = requested \cup {"advert"}
    /\ \E r \in AdvertResults :
           IF r.call = "returned"
           THEN /\ advert_data' = r.result
                /\ served' = [served EXCEPT !["advert"] = r.body]
                /\ swallowed' = swallowed
           ELSE /\ advert_data' = <<>>
                /\ served' = served
                /\ swallowed' = swallowed \cup {[ep |-> "advert", error |-> r.error]}
    /\ pc' = "funnel"
    /\ UNCHANGED <<clientVars, excelVars, sales_data, stocks_data, orders_data, funnel_data,
                   fatal, wb_row_data, add_daily_data_calls, replies, escaped>>

\* try: funnel_data = self.wb_client.get_sales_funnel(...)
\* except Exception: funnel_data = []
\* WBAPIClient defines no get_sales_funnel: the attribute lookup raises
\* AttributeError before any request is made, and the except clause takes it.
GetSalesFunnel ==
    /\ pc = "funnel"
    /\ funnel_data' = <<>>
    /\ swallowed' = swallowed \cup {[ep |-> "funnel", error |-> Err("AttributeError", 0)]}
    /\ pc' = "aggregate"
    /\ UNCHANGED <<clientVars, excelVars, sales_data, stocks_data, orders_data, advert_data,
                   requested, served, fatal, wb_row_data, add_daily_data_calls,
                   replies, escaped>>

\* The grouping of the datasets by day, the day's wb_row_data and
\* excel_handler.add_daily_data(today_str, wb_row_data); or the "no data"
\* message when today has no sales; or the ValueError of a sale's date.
Aggregate ==
    /\ pc = "aggregate"
    /\ LET grouped == GroupSales(<<>>, sales_data)
           orders_by_date == GroupOrders(<<>>, orders_data)
       IN  IF grouped.raised THEN
               /\ Fail(replies, Err("ValueError", 0))
               /\ UNCHANGED <<wb_row_data, add_daily_data_calls, excelVars>>
           ELSE IF today_str \notin DOMAIN grouped.data_by_date THEN
               /\ \E outcome \in SafeReplyOutcomes :
                      LET rs == Append(replies, Reply("no_data", outcome))
                      IN  IF outcome = "sent"
                          THEN replies' = rs /\ pc' = "done"
                               /\ UNCHANGED <<fatal, escaped>>
                          ELSE Fail(rs, Err(outcome, 0))
               /\ UNCHANGED <<wb_row_data, add_daily_data_calls, excelVars>>
           ELSE
               /\ wb_row_data' = BuildRow(grouped.data_by_date[today_str],
                                          orders_by_date, stocks_data,
                                          GroupAdverts(<<>>, advert_data),
                                          GroupFunnels(<<>>, funnel_data))
               /\ add_daily_data_calls' =
                      Append(add_daily_data_calls,
                             [date |-> today_str, wb_data |-> wb_row_data',
                              manual_data |-> <<>>])
               /\ file' = add_daily_data(file, today_str, AsNumbers(wb_row_data'), <<>>)
               /\ last_call' = Upserted(0, FALSE, TRUE)
               /\ UNCHANGED template
               /\ pc' = "report"
               /\ UNCHANGED <<replies, fatal, escaped>>
    /\ UNCHANGED <<clientVars, sales_data, stocks_data, orders_data, advert_data,
                   funnel_data, requested, served, swallowed>>

\* The text report, then the file: reply_document, and the "could not send
\* the file" message when it fails.
Report ==
    /\ pc = "report"
    /\ \E outcome \in SafeReplyOutcomes :
           LET rs == Append(replies, Reply("report", outcome))
           IN  IF outcome # "sent" THEN Fail(rs, Err(outcome, 0))
               ELSE \E document \in {"sent", "TelegramError"} :
                   LET rd == Append(rs, Reply("document", document))
                   IN  IF document = "sent"
                       THEN replies' = rd /\ pc' = "done"
                            /\ UNCHANGED <<fatal, escaped>>
                       ELSE \E notice \in SafeReplyOutcomes :
                           LET rn == Append(rd, Reply("file_failed", notice))
                           IN  IF notice = "sent"
                               THEN replies' = rn /\ pc' = "done"
                                    /\ UNCHANGED <<fatal, escaped>>
                               ELSE Fail(rn, Err(notice, 0))
    /\ UNCHANGED <<clientVars, excelVars, sales_data, stocks_data, orders_data, advert_data,
                   funnel_data, requested, served, swallowed, wb_row_data,
                   add_daily_data_calls>>

Next ==
    \/ Start
    \/ GetStatistics
    \/ GetStocks
    \/ GetOrders
    \/ GetAdvertStatistics
    \/ GetSalesFunnel
    \/ Aggregate
    \/ Report

Spec == Init /\ [][Next]_vars

\* ------------------------------------- parse_command, send attempt by attempt
\* What the fetches and the aggregation end in: the aggregate written, no sale
\* of the day, or an exception a fetch raises.
FetchFailures == { r.error : r \in { x \in SalesResults : x.call = "raised" } }

\* What the sending leaves alone: the client, the workbook and the datasets.
SendFrame ==
    UNCHANGED <<clientVars, excelVars, sales_data, stocks_data, orders_data,
                advert_data, funnel_data, requested, served, swallowed,
                wb_row_data, add_daily_data_calls>>

\* An exception inside the try: it is for the except clauses.
Raised(e) == fatal' = e /\ pc' = "except" /\ UNCHANGED escaped

\* A _safe_reply inside the try: on to `next` when sent, else its exception.
SendInTry(msg, next) ==
    \E run \in SafeReplyRuns :
        /\ replies' = Append(replies, Attempted(msg, run))
        /\ IF run.outcome = "sent" THEN pc' = next /\ UNCHANGED <<fatal, escaped>>
           ELSE Raised(Err(run.outcome, 0))

\* await self._safe_reply(update, "... Начинаю парсинг ...")
SendStarting ==
    /\ pc = "start"
    /\ SendInTry("starting", "fetch")
    /\ SendFrame

\* The fetches, the aggregation and add_daily_data, by what they end in.
Fetched ==
    /\ pc = "fetch"
    /\ \/ pc' = "report" /\ UNCHANGED <<fatal, escaped>>
       \/ pc' = "no_data" /\ UNCHANGED <<fatal, escaped>>
       \/ \E e \in FetchFailures : Raised(e)
    /\ UNCHANGED replies
    /\ SendFrame

\* await self._safe_reply(update, "... Нет данных за ..."); return
SendNoData ==
    /\ pc = "no_data"
    /\ SendInTry("no_data", "done")
    /\ SendFrame

\* await self._safe_reply(update, "\n".join(report_lines))
SendReport ==
    /\ pc = "report"
    /\ SendInTry("report", "document")
    /\ SendFrame

\* for attempt in range(max_attempts): ... reply_document(...)
SendDocument ==
    /\ pc = "document"
    /\ \E run \in DocumentRuns :
           /\ replies' = Append(replies, Attempted("document", run))
           /\ pc' = IF run.outcome = "sent" THEN "done" ELSE "file_failed"
    /\ UNCHANGED <<fatal, escaped>>
    /\ SendFrame

\* await self._safe_reply(update, "... Не удалось отправить файл ...")
SendFileFailed ==
    /\ pc = "file_failed"
    /\ SendInTry("file_failed", "done")
    /\ SendFrame

\* The except clauses, for the exception `fatal`.
Except ==
    /\ pc = "except"
    /\ \E run \in SafeReplyRuns :
           LET h == HandleError(<<>>, fatal, run.outcome)
           IN  /\ replies' = IF h.replies = <<>> THEN replies
                             ELSE Append(replies, Attempted(h.replies[1].msg, run))
               /\ escaped' = h.escaped
    /\ pc' = "done"
    /\ UNCHANGED fatal
    /\ SendFrame

SendNext ==
    \/ SendStarting
    \/ Fetched
    \/ SendNoData
    \/ SendReport
    \/ SendDocument
    \/ SendFileFailed
    \/ Except

SendSpec == Init /\ [][SendNext]_vars

\* reply_text and reply_document return or raise, and asyncio.sleep returns,
\* so parse_command always takes its next step.
FairSendSpec == SendSpec /\ WF_vars(SendNext)

\* ------------------------------------------- the aggregation, on any datasets
\* The records the five datasets are drawn from: well-formed records of today
\* and of another day, records parse_command's loops stumble on (no date, a
\* date in another form), zero counts, and the same article twice.
IsoTodayDotted == StrftimeDay(Today)

SaleInputs ==
    { [date |-> IsoToday, nmId |-> 100, priceWithDisc |-> 500,
       totalPrice |-> 500, isRealization |-> TRUE],
      [date |-> IsoTodayNoon, nmId |-> 101, priceWithDisc |-> 300,
       totalPrice |-> 300, isRealization |-> FALSE],
      [date |-> IsoYesterday, nmId |-> 100, priceWithDisc |-> 700,
       totalPrice |-> 700, isRealization |-> TRUE],
      [nmId |-> 100, priceWithDisc |-> 500, totalPrice |-> 500,
       isRealization |-> TRUE] }

StockInputs ==
    { [nmId |-> 100, quantity |-> 20],
      [nmId |-> 101, quantity |-> 7],
      [nmId |-> 100, quantity |-> 0],
      [nmId |-> 101, amount |-> 3] }

OrderInputs ==
    { [date |-> IsoTodayNoon, nmId |-> 100, totalPrice |-> 500, isCancel |-> FALSE],
      [date |-> IsoTodayNoon, nmId |-> 101, totalPrice |-> 300, isCancel |-> TRUE],
      [nmId |-> 100, totalPrice |-> 500, isCancel |-> FALSE] }

AdvertInputs ==
    { [date |-> IsoToday, impressions |-> 100, clicks |-> 10, sum |-> 100],
      [date |-> IsoToday, impressions |-> 50, clicks |-> 0, sum |-> 0,
       cpc |-> Frac(7, 2)],
      [date |-> IsoToday, impressions |-> 0, clicks |-> 5, sum |-> 0],
      [date |-> IsoTodayDotted, impressions |-> 30, clicks |-> 4, sum |-> 6],
      [date |-> IsoToday, impressions |-> 20, clicks |-> 0, sum |-> 40],
      [impressions |-> 100, clicks |-> 10, sum |-> 100] }

FunnelInputs ==
    { [date |-> IsoToday, openCount |-> 40, cartCount |-> 5, orderCount |-> 2],
      [date |-> IsoToday, openCount |-> 8, cartCount |-> 0, orderCount |-> 0],
      [date |-> IsoTodayNoon, openCount |-> 9, cartCount |-> 9, orderCount |-> 9] }

\* The datasets parse_command holds when its fetches are over: any sales,
\* stocks and orders; or at most one sale beside any orders and funnel
\* records; or at most one sale beside any advert records.
AggInit ==
    /\ endpoint = "none"
    /\ attempt = 0
    /\ requests = 0
    /\ sleeps = <<>>
    /\ responses = <<>>
    /\ call = "idle"
    /\ result = <<>>
    /\ error = NoError
    /\ pc = "aggregate"
    /\ \/ /\ sales_data \in SeqsUpTo(SaleInputs, MaxLen("sales"))
          /\ stocks_data \in SeqsUpTo(StockInputs, MaxRecords)
          /\ orders_data \in SeqsUpTo(OrderInputs, MaxLen("orders"))
          /\ funnel_data = <<>>
          /\ advert_data = <<>>
       \/ /\ sales_data \in SeqsUpTo(SaleInputs, 1)
          /\ stocks_data = <<>>
          /\ orders_data \in SeqsUpTo(OrderInputs, MaxRecords)
          /\ funnel_data \in SeqsUpTo(FunnelInputs, MaxLen("funnel"))
          /\ advert_data = <<>>
       \/ /\ sales_data \in SeqsUpTo(SaleInputs, 1)
          /\ stocks_data = <<>>
          /\ orders_data = <<>>
          /\ funnel_data = <<>>
          /\ advert_data \in SeqsUpTo(AdvertInputs, MaxAdverts)
    /\ requested = ClientEndpoints
    /\ served = [ep \in Endpoints |-> NoServed]
    /\ swallowed = {}
    /\ fatal = NoError
    /\ wb_row_data = <<>>
    /\ add_daily_data_calls = <<>>
    /\ replies = <<>>
    /\ escaped = NoError
    /\ file = create_from_template(NoFile)
    /\ template = NoFile
    /\ last_call = Constructed

AggNext ==
    \/ Aggregate
    \/ Report

AggSpec == AggInit /\ [][AggNext]_vars

\* ------------------------------------- one ExcelHandler, call after call
\* The dates, aggregates and manual values add_daily_data is called with: two
\* days of one month; a full aggregate and one with few keys; a comment, and
\* another comment beside a month's total given as a text of digits.
DateInputs ==
    { <<"0", "4", ".", "0", "5", ".", "2", "0", "2", "4">>,
      <<"0", "5", ".", "0", "5", ".", "2", "0", "2", "4">> }

WbInputs ==
    { [K_den |-> Frac(500, 1), Kassa_den |-> Frac(500, 1), Kassa_mesyac |-> Zero,
       zakazy |-> Frac(1, 1), TSENA_tovara |-> Frac(500, 1),
       ostatok_tovara_na_sklade |-> Frac(20, 1), khran_den |-> Frac(3, 1),
       pokazy |-> Frac(100, 1), kliki |-> Frac(10, 1), CTR |-> Frac(10, 1),
       tsena_klika_AUKTS |-> Frac(7, 2), tsena_klika_ARK |-> Frac(9, 2),
       tsena_klika |-> Frac(7, 2), raskhod_AUKTS |-> Frac(100, 1),
       raskhod_ARK |-> Zero],
      [K_den |-> Frac(800, 1), Kassa_den |-> Frac(800, 1), Kassa_mesyac |-> Zero,
       zakazy |-> Frac(2, 1), TSENA_tovara |-> Frac(400, 1)] }

ManualInputs ==
    { <<>>,
      << [key |-> DefaultColumns[3], value |-> StrCell(<<"o", "k">>)] >>,
      << [key |-> DefaultColumns[3], value |-> StrCell(<<"n", "o">>)],
         [key |-> DefaultColumns[4], value |-> StrCell(<<"7">>)] >> }

\* ExcelHandler(file_path) has just been constructed.
ExcelInit ==
    /\ endpoint = "none"
    /\ attempt = 0
    /\ requests = 0
    /\ sleeps = <<>>
    /\ responses = <<>>
    /\ call = "idle"
    /\ result = <<>>
    /\ error = NoError
    /\ pc = "idle"
    /\ sales_data = <<>> /\ stocks_data = <<>> /\ orders_data = <<>>
    /\ advert_data = <<>> /\ funnel_data = <<>>
    /\ requested = {}
    /\ served = [ep \in Endpoints |-> NoServed]
    /\ swallowed = {}
    /\ fatal = NoError
    /\ wb_row_data = <<>>
    /\ add_daily_data_calls = <<>>
    /\ replies = <<>>
    /\ escaped = NoError
    /\ file = create_from_template(NoFile)
    /\ template = NoFile
    /\ last_call = Constructed

\* excel_handler.add_daily_data(date, wb_data, manual_data)
AddDailyData ==
    /\ Len(add_daily_data_calls) < MaxCalls
    /\ \E date \in DateInputs, wb_data \in WbInputs, manual_data \in ManualInputs :
           /\ file' = add_daily_data(file, date, wb_data, manual_data)
           /\ last_call' = Upserted(0, FALSE, TRUE)
           /\ UNCHANGED template
           /\ add_daily_data_calls' =
                  Append(add_daily_data_calls,
                         [date |-> date, wb_data |-> wb_data,
                          manual_data |-> manual_data])
    /\ UNCHANGED <<clientVars, pc, sales_data, stocks_data, orders_data, advert_data,
                   funnel_data, requested, served, swallowed, fatal, wb_row_data,
                   replies, escaped>>

ExcelNext == AddDailyData

ExcelSpec == ExcelInit /\ [][ExcelNext]_vars

\* ------------------------------ one ExcelHandler, upserts and update_row
\* The updates update_row is called with: a comment, a value for a key that
\* is no column, and both.
UpdateInputs ==
    { << [key |-> DefaultColumns[3], value |-> StrCell(<<"u", "p">>)] >>,
      << [key |-> <<"n", "o", "n", "e">>, value |-> StrCell(<<"u", "p">>)] >>,
      << [key |-> <<"n", "o", "n", "e">>, value |-> StrCell(<<"u", "p">>)],
         [key |-> DefaultColumns[3], value |-> StrCell(<<"o", "n">>)] >> }

\* self._last_date: the date of the handler's last add_daily_data, or None.
last_date ==
    IF add_daily_data_calls = <<>> THEN <<>>
    ELSE add_daily_data_calls[Len(add_daily_data_calls)].date

\* excel_handler.add_daily_data(date, wb_data), no manual values
AddDailyDataOnly ==
    /\ Len(add_daily_data_calls) < MaxCalls
    /\ \E date \in DateInputs, wb_data \in WbInputs :
           /\ file' = add_daily_data(file, date, wb_data, <<>>)
           /\ last_call' = Upserted(0, FALSE, TRUE)
           /\ UNCHANGED template
           /\ add_daily_data_calls' =
                  Append(add_daily_data_calls,
                         [date |-> date, wb_data |-> wb_data, manual_data |-> <<>>])
    /\ UNCHANGED <<clientVars, pc, sales_data, stocks_data, orders_data, advert_data,
                   funnel_data, requested, served, swallowed, fatal, wb_row_data,
                   replies, escaped>>

\* excel_handler.update_row(date, updates)
UpdateRow ==
    /\ \E date \in DateInputs, updates \in UpdateInputs :
           /\ file' = update_row(file, date, updates, last_date).file
           /\ last_call' = RowUpdated(date, updates,
                                      update_row(file, date, updates, last_date).raised)
           /\ UNCHANGED template
    /\ UNCHANGED <<clientVars, pc, sales_data, stocks_data, orders_data, advert_data,
                   funnel_data, requested, served, swallowed, fatal, wb_row_data,
                   add_daily_data_calls, replies, escaped>>

UpdateNext ==
    \/ AddDailyDataOnly
    \/ UpdateRow

UpdateSpec == ExcelInit /\ [][UpdateNext]_vars

\* ------------------------- the report file, its template and what befalls it
\* The template at template_path: none, or one of the two above.
TemplateInputs == { NoFile, StyledTemplate, FilledTemplate }

\* ExcelHandler(file_path, template_path) has just been constructed.
HandlerInit ==
    /\ endpoint = "none"
    /\ attempt = 0
    /\ requests = 0
    /\ sleeps = <<>>
    /\ responses = <<>>
    /\ call = "idle"
    /\ result = <<>>
    /\ error = NoError
    /\ pc = "idle"
    /\ sales_data = <<>> /\ stocks_data = <<>> /\ orders_data = <<>>
    /\ advert_data = <<>> /\ funnel_data = <<>>
    /\ requested = {}
    /\ served = [ep \in Endpoints |-> NoServed]
    /\ swallowed = {}
    /\ fatal = NoError
    /\ wb_row_data = <<>>
    /\ add_daily_data_calls = <<>>
    /\ replies = <<>>
    /\ escaped = NoError
    /\ template \in TemplateInputs
    /\ file = create_from_template(template)
    /\ last_call = Constructed

\* ExcelHandler(file_path, template_path) is constructed again for the path.
NewHandler ==
    /\ file' = create_from_template(template)
    /\ last_call' = Constructed
    /\ UNCHANGED <<clientVars, botVars, template>>

\* Outside the program the file is removed, emptied to size 0, or spoilt so
\* that it cannot be read.
Damage ==
    /\ file.condition = "ok"
    /\ \E condition \in {"absent", "empty", "corrupt"} :
           file' = [NoFile EXCEPT !.condition = condition]
    /\ UNCHANGED <<clientVars, botVars, template, last_call>>

\* excel_handler.add_daily_data(date, wb_data) as a whole: read_data with its
\* recreations, the update or the new row, and write_data, by the workbook or
\* by to_excel; each read and the save succeed or not.
HandlerAddDailyData ==
    /\ Len(add_daily_data_calls) < MaxCalls
    /\ \E date \in DateInputs, wb_data \in WbInputs,
          read_in_try \in BOOLEAN, read_in_except \in BOOLEAN, formatted \in BOOLEAN :
           \E rd \in {read_data_call(file, template, read_in_try, read_in_except)} :
               /\ file' = IF rd.raised THEN rd.file
                          ELSE IF formatted
                               THEN add_daily_data(rd.file, date, wb_data, <<>>)
                          ELSE to_excel(upserted(read_data(rd.file),
                                                 ExistingRow(read_data(rd.file), date),
                                                 date, wb_data, <<>>))
               /\ last_call' = Upserted(rd.recreated, rd.raised,
                                        ~rd.raised /\ formatted)
               /\ add_daily_data_calls' =
                      Append(add_daily_data_calls,
                             [date |-> date, wb_data |-> wb_data, manual_data |-> <<>>])
    /\ UNCHANGED <<clientVars, pc, sales_data, stocks_data, orders_data, advert_data,
                   funnel_data, requested, served, swallowed, fatal, wb_row_data,
                   replies, escaped, template>>

HandlerNext ==
    \/ NewHandler
    \/ Damage
    \/ HandlerAddDailyData

HandlerSpec == HandlerInit /\ [][HandlerNext]_vars

\* ======================================================= claims: the client
Finished == call \in {"returned", "raised"}
LastResponse == responses[Len(responses)]
IsStatus(o, st) == o.kind = "response" /\ o.status = st

\* A 429 whose Retry-After is absent or a number of seconds, and the seconds
\* it asks for: 60 when absent, 2 for "2".
IsRateLimited(o) ==
    IsStatus(o, 429) /\ (o.has_retry_after => o.retry_after = <<"2">>)
HintOf(o) == IF o.has_retry_after THEN 2 ELSE 60
Hints(n) == [i \in 1..n |-> HintOf(responses[i])]

\* A 200 whose body is JSON, and the records it carries.
IsParsed200(o) == IsStatus(o, 200) /\ o.body.tag # "undecodable"
ParsedRecords(body) ==
    CASE body.tag = "list" -> body.items
      [] body.tag = "dict" -> <<body.object>>
      [] body.tag = "scalar" -> <<>>

\* The waits of the exponential backoff, by 1-based request number.
BackoffWaits == <<5, 10, 20, 40>>

\* C1: a 400 ends the call at once, at whatever attempt it arrives: it is the
\* last request made, the call has raised the 400, and no sleep follows it
\* (one sleep per earlier request, none for this one).
C1_BadRequestRaisesImmediately ==
    \A i \in 1..Len(responses) :
        IsStatus(responses[i], 400) =>
            /\ i = Len(responses)
            /\ requests = i
            /\ call = "raised"
            /\ error = Err("HTTPError", 400)
            /\ Len(sleeps) = i - 1

\* C1 witness: a 400 on the third request, after two retried failures.
C1_Witness ==
    /\ Len(responses) = 3
    /\ IsStatus(responses[3], 400)
    /\ call = "raised"
    /\ Len(sleeps) = 2

\* C2: k 429s (k in 0..4) and then a 200: while only 429s have come the call
\* is still running, having slept exactly what each 429 asked for; the 200 then
\* returns the parsed records after k+1 requests and k sleeps.
C2_RateLimitedThenSuccess ==
    LET n == Len(responses)
    IN  /\ (n <= max_retries - 1 /\ \A i \in 1..n : IsRateLimited(responses[i])) =>
               /\ call = "running"
               /\ requests = n
               /\ sleeps = Hints(n)
        /\ (/\ n >= 1
            /\ IsParsed200(responses[n])
            /\ \A i \in 1..(n - 1) : IsRateLimited(responses[i])) =>
               /\ n <= max_retries
               /\ call = "returned"
               /\ result = ParsedRecords(responses[n].body)
               /\ requests = n
               /\ sleeps = Hints(n - 1)

\* C2 witness: Retry-After: 2 three times, then 200 with records: 4 requests,
\* every sleep 2.
C2_Witness ==
    /\ Len(responses) = 4
    /\ \A i \in 1..3 : IsStatus(responses[i], 429) /\ responses[i].has_retry_after
    /\ IsParsed200(responses[4])
    /\ call = "returned"
    /\ result # <<>>
    /\ requests = 4
    /\ sleeps = <<2, 2, 2>>

\* C3: 429 on every attempt: 5 requests, a sleep after each of the first 4
\* only, then an HTTPError carrying 429, which the caller reports as a rate
\* limit; and a call that ended on a timeout, a 400, a 401 or a 403 raises an
\* error the caller does not report so.
C3_RateLimitExhausted ==
    LET n == Len(responses)
    IN  /\ (n = max_retries /\ \A i \in 1..n : IsRateLimited(responses[i])) =>
               /\ call = "raised"
               /\ error = Err("HTTPError", 429)
               /\ requests = 5
               /\ sleeps = Hints(4)
               /\ ErrorMessage(error) = "rate_limit"
        /\ (call = "raised" /\ (\/ LastResponse.kind = "timeout"
                                \/ LastResponse.status \in {400, 401, 403})) =>
               /\ error # Err("HTTPError", 429)
               /\ ErrorMessage(error) # "rate_limit"

\* C3 witness: five 429s, four sleeps, the call has raised.
C3_Witness ==
    /\ Len(responses) = 5
    /\ \A i \in 1..5 : IsStatus(responses[i], 429)
    /\ call = "raised"
    /\ Len(sleeps) = 4

\* C4: a 401 or 403 ends the call at once, at whatever attempt it arrives: it
\* is the last request made, the call has raised it, and no sleep follows it.
C4_AuthErrorRaisesImmediately ==
    \A i \in 1..Len(responses) :
        (IsStatus(responses[i], 401) \/ IsStatus(responses[i], 403)) =>
            /\ i = Len(responses)
            /\ requests = i
            /\ call = "raised"
            /\ error = Err("HTTPError", responses[i].status)
            /\ Len(sleeps) = i - 1

\* C4 witness: a 403 on the fourth request.
C4_Witness ==
    /\ Len(responses) = 4
    /\ IsStatus(responses[4], 403)
    /\ call = "raised"
    /\ Len(sleeps) = 3

\* C5: a timeout or network failure on request i < 5 is followed by a sleep of
\* 5, 10, 20, 40 for i = 1..4 and by another request; on request 5 its error
\* is raised and no fifth sleep is made.
C5_TransientBackoff ==
    \A i \in 1..Len(responses) :
        responses[i].kind \in {"timeout", "neterr"} =>
            IF i < max_retries THEN
                /\ Len(sleeps) >= i
                /\ sleeps[i] = BackoffWaits[i]
                /\ (i = Len(responses) => call = "running" /\ attempt = i)
            ELSE
                /\ call = "raised"
                /\ error = Err(IF responses[i].kind = "timeout" THEN "Timeout"
                               ELSE "ConnectionError", 0)
                /\ requests = 5
                /\ Len(sleeps) = 4

\* C5 witness: five transient failures, waits 5, 10, 20, 40, then the raise.
C5_Witness ==
    /\ Len(responses) = 5
    /\ \A i \in 1..5 : responses[i].kind \in {"timeout", "neterr"}
    /\ responses[1].kind # responses[5].kind
    /\ sleeps = <<5, 10, 20, 40>>
    /\ call = "raised"

\* C6: every call ends: it never makes more than max_retries requests, and it
\* eventually has returned a sequence or raised.
C6_CallTerminates ==
    /\ [](requests <= max_retries)
    /\ <>(\/ call = "returned" /\ DOMAIN result = 1..Len(result)
          \/ call = "raised" /\ error # NoError)

\* C6 witness: a call that used all five requests and ended.
C6_Witness ==
    /\ requests = max_retries
    /\ Finished
    /\ \E i \in 1..5 : \E j \in 1..5 : responses[i].kind # responses[j].kind

\* C7: a call that returned gives the body itself when the body is a list, a
\* one-element list holding the body when it is an object, and a sequence in
\* every case.
C7_BodyNormalized ==
    call = "returned" =>
        /\ IsStatus(LastResponse, 200)
        /\ DOMAIN result = 1..Len(result)
        /\ LastResponse.body.tag = "list" => result = LastResponse.body.items
        /\ LastResponse.body.tag = "dict" =>
               Len(result) = 1 /\ result[1] = LastResponse.body.object

\* C7 witness: an object body came back as a one-element list.
C7_Witness ==
    /\ call = "returned"
    /\ LastResponse.body.tag = "dict"
    /\ Len(result) = 1

\* ================================================== claims: the orchestrator
\* The dataset parse_command holds for an endpoint.
DataOf(ep) ==
    CASE ep = "sales" -> sales_data
      [] ep = "stocks" -> stocks_data
      [] ep = "orders" -> orders_data
      [] ep = "advert" -> advert_data
      [] ep = "funnel" -> funnel_data

\* The sale's date is an ISO date, and it is the day d.
SaleParses(sale) == FromIsoFormat(Get(sale, "date", <<>>)).ok
SaleIsOn(sale, d) ==
    LET p == FromIsoFormat(Get(sale, "date", <<>>))
    IN  p.ok /\ p.year = d.year /\ p.month = d.month /\ p.day = d.day

AllSalesParse == \A i \in 1..Len(sales_data) : SaleParses(sales_data[i])
TodayHasSales == \E i \in 1..Len(sales_data) : SaleIsOn(sales_data[i], Today)

\* C8: an error of the advert or funnel fetch leaves that dataset empty and
\* does not end the request: once the advert fetch has been tried, a request
\* whose sales all carry a date and include one of today ends with today's row
\* handed to add_daily_data, whatever the two fetches ended in.
C8_OptionalFetchFailureIsEmpty ==
    /\ \A w \in swallowed : DataOf(w.ep) = <<>>
    /\ (pc = "done" /\ "advert" \in requested /\ AllSalesParse /\ TodayHasSales)
            => /\ Len(add_daily_data_calls) = 1
               /\ add_daily_data_calls[1].date = today_str
               /\ fatal.type \in {"none", "NetworkError", "TelegramError"}

\* C8 witness: the advert fetch ran out of retries on 429, the funnel fetch
\* failed too, and today's row was still handed over.
C8_Witness ==
    /\ pc = "done"
    /\ [ep |-> "advert", error |-> Err("HTTPError", 429)] \in swallowed
    /\ \E w \in swallowed : w.ep = "funnel"
    /\ advert_data = <<>> /\ funnel_data = <<>>
    /\ Len(add_daily_data_calls) = 1

\* C9 (as claimed): when the aggregation starts, each of the five endpoints
\* has been asked, and the dataset of each endpoint that answered 200 is the
\* records of that answer.
C9_AllFiveDatasetsReachAggregation ==
    pc = "aggregate" =>
        \A ep \in Endpoints :
            /\ ep \in requested
            /\ served[ep] # NoServed => DataOf(ep) = ParsedRecords(served[ep])

\* The sum of totalPrice over the sales of day d with isRealization true.
RECURSIVE RealizedRevenue(_, _)
RealizedRevenue(sales, d) ==
    IF sales = <<>> THEN 0
    ELSE (IF SaleIsOn(Head(sales), d) /\ Get(Head(sales), "isRealization", FALSE)
          THEN Get(Head(sales), "totalPrice", 0) ELSE 0)
         + RealizedRevenue(Tail(sales), d)

\* C10 (as claimed): the revenue written for today is the sum of totalPrice
\* over today's sales with isRealization true.
C10_RevenueIsRealizedSum ==
    \A i \in 1..Len(add_daily_data_calls) :
        /\ add_daily_data_calls[i].wb_data.K_den = RealizedRevenue(sales_data, Today)
        /\ add_daily_data_calls[i].wb_data.Kassa_den = RealizedRevenue(sales_data, Today)

\* ==================================================== claims: the aggregation
\* The aggregate handed to add_daily_data, once it has been.
HasRow == Len(add_daily_data_calls) > 0
Row == add_daily_data_calls[1].wb_data
Has(key) == key \in DOMAIN Row

SameDay(p, d) == p.ok /\ p.year = d.year /\ p.month = d.month /\ p.day = d.day

\* The record's date is the day d: an ISO date or datetime for an order, a
\* YYYY-MM-DD date for a funnel record, that or the dotted day for an advert.
OrderIsOn(r, d) == SameDay(FromIsoFormat(Get(r, "date", <<>>)), d)
FunnelIsOn(r, d) == SameDay(StrptimeYmd(Get(r, "date", <<>>)), d)
AdvertIsOn(r, d) ==
    \/ FunnelIsOn(r, d)
    \/ Get(r, "date", <<>>) = StrftimeDay(d)

RECURSIVE SeqSum(_)
SeqSum(q) == IF q = <<>> THEN 0 ELSE Head(q) + SeqSum(Tail(q))

\* The sum of a field over the records of `data` that satisfy `On`.
FieldSum(data, On(_), key) ==
    SeqSum([i \in 1..Len(data) |-> IF On(data[i]) THEN Get(data[i], key, 0) ELSE 0])

AdvertToday(r) == AdvertIsOn(r, Today)
FunnelToday(r) == FunnelIsOn(r, Today)

FunnelOrdersToday == FieldSum(funnel_data, FunnelToday, "orderCount")
OpenOrdersToday ==
    Cardinality({ i \in 1..Len(orders_data) :
                    OrderIsOn(orders_data[i], Today)
                    /\ ~Get(orders_data[i], "isCancel", FALSE) })
RealizedSalesToday ==
    Cardinality({ i \in 1..Len(sales_data) :
                    SaleIsOn(sales_data[i], Today)
                    /\ Get(sales_data[i], "isRealization", FALSE) })
ImpressionsToday == FieldSum(advert_data, AdvertToday, "impressions")
ClicksToday == FieldSum(advert_data, AdvertToday, "clicks")

\* C11: the order count of the day is the funnel's order count when that is
\* positive, else the number of the day's orders that are not cancelled when
\* there is one, else the number of the day's sales with isRealization true.
C11_OrderCountPrecedence ==
    HasRow =>
        Row.zakazy = IF FunnelOrdersToday > 0 THEN FunnelOrdersToday
                     ELSE IF OpenOrdersToday > 0 THEN OpenOrdersToday
                     ELSE RealizedSalesToday

\* C11 witness: the funnel says 2 orders, the orders endpoint 1, and the sales
\* no realized sale: the count is 2.
C11_Witness ==
    /\ HasRow
    /\ FunnelOrdersToday = 2
    /\ OpenOrdersToday = 1
    /\ RealizedSalesToday = 0
    /\ Row.zakazy = 2

\* C12: CTR is in the aggregate exactly when the day's impressions and the
\* day's clicks are both positive, and is then 100 * clicks / impressions.
C12_CtrOnlyWhenBothPositive ==
    HasRow =>
        /\ Has("CTR") <=> (ImpressionsToday > 0 /\ ClicksToday > 0)
        /\ Has("CTR") => Row["CTR"] = Frac(100 * ClicksToday, ImpressionsToday)

\* C12 witness: two advert records of the day, 130 impressions and 14 clicks
\* in all, CTR 140/13; and a day with impressions but no click has no CTR.
C12_Witness ==
    /\ HasRow
    /\ ImpressionsToday = 130
    /\ ClicksToday = 14
    /\ Has("CTR")
    /\ Row["CTR"] = [num |-> 140, den |-> 13]

\* C13 (as claimed): with one advert record of the day, the click price is the
\* record's cpc when that is positive, whatever its clicks and spend; without
\* a cpc it is spend / clicks when there are clicks and spend, and absent when
\* there is no click.
C13_ClickPriceFromCpcFirst ==
    (HasRow /\ Len(advert_data) = 1 /\ AdvertToday(advert_data[1])) =>
        LET a == advert_data[1]
            spend == Get(a, "sum", 0)
        IN  IF Get(a, "cpc", Zero).num > 0
            THEN Has("tsena_klika") /\ Row["tsena_klika"] = a.cpc
            ELSE /\ (a.clicks > 0 /\ spend > 0) =>
                        Has("tsena_klika") /\ Row["tsena_klika"] = Frac(spend, a.clicks)
                 /\ a.clicks = 0 => ~Has("tsena_klika")

\* The total stock of the day: over the articles of the day's sales, the
\* quantity (`quantity`, or `amount` when that is missing or 0) of the first
\* stock record of the article.
ArticlesToday ==
    { Get(sales_data[i], "nmId", -1) :
        i \in { j \in 1..Len(sales_data) : SaleIsOn(sales_data[j], Today) } }
FirstStock(article) ==
    LET at == { i \in 1..Len(stocks_data) : Get(stocks_data[i], "nmId", -2) = article }
    IN  IF at = {} THEN 0
        ELSE LET s == stocks_data[CHOOSE i \in at : \A j \in at : i <= j]
             IN  IF Get(s, "quantity", 0) # 0 THEN s.quantity ELSE Get(s, "amount", 0)
RECURSIVE SetSum(_, _)
SetSum(f, S) ==
    IF S = {} THEN 0
    ELSE LET x == CHOOSE y \in S : TRUE IN f[x] + SetSum(f, S \ {x})
StockToday == SetSum([a \in ArticlesToday |-> FirstStock(a)], ArticlesToday)

\* C14: the storage days and the stock quantity are in the aggregate exactly
\* when the day's total stock is positive; the storage days are then 15
\* hundredths per unit of stock, the quantity the total stock.
C14_StorageDays ==
    HasRow =>
        /\ Has("khran_den") <=> StockToday > 0
        /\ Has("ostatok_tovara_na_sklade") <=> StockToday > 0
        /\ StockToday > 0 =>
               /\ Row["khran_den"] = Frac(15 * StockToday, 100)
               /\ Row["ostatok_tovara_na_sklade"] = StockToday

\* C14 witness: a total stock of 7, storage days 1.05.
C14_Witness ==
    /\ HasRow
    /\ StockToday = 7
    /\ Row["khran_den"] = [num |-> 21, den |-> 20]
    /\ Row["ostatok_tovara_na_sklade"] = 7

\* The scenario of C15.
C15_Scenario ==
    /\ sales_data = << [date |-> IsoToday, nmId |-> 100, priceWithDisc |-> 500,
                        totalPrice |-> 500, isRealization |-> TRUE] >>
    /\ stocks_data = << [nmId |-> 100, quantity |-> 20] >>
    /\ orders_data = <<>> /\ advert_data = <<>> /\ funnel_data = <<>>

\* C15: one realized sale of 500 on 2024-01-05 of article 100, 20 units of it
\* in stock, nothing else: the aggregate of 05.01.2024 is handed over, with
\* revenue 500, order count 1, price 500, stock 20, storage days 3.0 and no
\* advert or funnel key.
C15_EndToEnd ==
    (C15_Scenario /\ pc \in {"report", "done"}) =>
        /\ Len(add_daily_data_calls) = 1
        /\ add_daily_data_calls[1].date
             = <<"0", "5", ".", "0", "1", ".", "2", "0", "2", "4">>
        /\ DOMAIN Row = {"K_den", "Kassa_den", "Kassa_mesyac", "zakazy",
                         "TSENA_tovara", "ostatok_tovara_na_sklade", "khran_den"}
        /\ Row["K_den"] = 500
        /\ Row["Kassa_den"] = 500
        /\ Row["zakazy"] = 1
        /\ Row["TSENA_tovara"] = [num |-> 500, den |-> 1]
        /\ Row["ostatok_tovara_na_sklade"] = 20
        /\ Row["khran_den"] = [num |-> 3, den |-> 1]

\* C15 witness: the scenario, the request over and the report sent.
C15_Witness ==
    /\ C15_Scenario
    /\ pc = "done"
    /\ HasRow
    /\ Row["zakazy"] = 1
    /\ \E i \in 1..Len(replies) : replies[i] = Reply("document", "sent")

\* C16 (as claimed): a record that does not parse is passed over and the rest
\* is aggregated: a request whose fetches are over and whose sales include one
\* of today ends with today's row handed to add_daily_data, and not in the
\* handler of a ValueError.
C16_MalformedRecordIsSkipped ==
    (pc = "done" /\ "advert" \in requested /\ TodayHasSales) =>
        /\ Len(add_daily_data_calls) = 1
        /\ fatal.type # "ValueError"

\* C17: when every sale carries a date and none is of today, nothing is handed
\* to add_daily_data and the requester is sent the "no data" message; no error
\* message is composed unless sending that message failed.
C17_NoSalesNoRow ==
    (pc = "done" /\ "advert" \in requested /\ AllSalesParse /\ ~TodayHasSales) =>
        /\ add_daily_data_calls = <<>>
        /\ \E i \in 1..Len(replies) :
               /\ replies[i].msg = "no_data"
               /\ \A j \in 1..(i - 1) : replies[j] = Reply("starting", "sent")
               /\ replies[i].outcome = "sent" =>
                      i = Len(replies) /\ fatal = NoError /\ escaped = NoError

\* C17 witness: the only sale is yesterday's while the orders and the funnel
\* hold records of today; the "no data" message was sent and nothing else.
C17_Witness ==
    /\ pc = "done"
    /\ Len(sales_data) = 1 /\ AllSalesParse /\ ~TodayHasSales
    /\ OpenOrdersToday = 1
    /\ funnel_data # <<>>
    /\ replies = <<Reply("no_data", "sent")>>
    /\ add_daily_data_calls = <<>>

\* ==================================================== claims: the report file
\* The call add_daily_data was made with last, and whether this step makes one.
LastCall == add_daily_data_calls[Len(add_daily_data_calls)]
IsUpsert == Len(add_daily_data_calls') = Len(add_daily_data_calls) + 1
ThisCall == add_daily_data_calls'[Len(add_daily_data_calls')]

\* The rows of a file whose date cell is the date, letter for letter.
RowsOf(f, date) ==
    { r \in 1..Len(f.rows) : f.rows[r][DateColumn(f.header)] = StrCell(date) }

\* The manual columns of the report and, for every other column but the
\* date's, the field of the aggregate it shows.
ManualColumns ==
    { i \in 1..Len(DefaultColumns) :
        \E k \in 1..Len(ManualFields) : ManualFields[k] = DefaultColumns[i] }
SystemColumns ==
    (5 :> "Kassa_den") @@ (6 :> "pokazy") @@ (7 :> "kliki") @@ (8 :> "CTR")
    @@ (9 :> "tsena_klika") @@ (10 :> "raskhod_AUKTS") @@ (11 :> "tsena_klika_ARK")
    @@ (12 :> "raskhod_ARK") @@ (13 :> "pereshli_v_kartochku") @@ (14 :> "korzin")
    @@ (15 :> "zakazy") @@ (16 :> "khran_den") @@ (18 :> "itogo_pribyl")
    @@ (19 :> "TSENA_tovara") @@ (20 :> "ostatok_tovara_na_sklade")

\* C18 (as claimed): a call with the date of the call before it leaves the
\* number of rows as it was, and exactly one row carries that date.
C18_SameDateTwiceOneRow ==
    [][(IsUpsert /\ add_daily_data_calls # <<>> /\ ThisCall.date = LastCall.date) =>
           /\ Len(file'.rows) = Len(file.rows)
           /\ Cardinality(RowsOf(file', ThisCall.date)) = 1]_vars

\* C19 (as claimed): a call for a date that has its row already leaves in
\* every system column of that row the value its aggregate has for the
\* column's field, and nothing where the aggregate has none.
C19_SecondUpsertRefreshesSystemColumns ==
    [][(IsUpsert /\ RowsOf(file, ThisCall.date) # {}) =>
           \A r \in RowsOf(file, ThisCall.date) : \A i \in DOMAIN SystemColumns :
               file'.rows[r][i] = WbGet(ThisCall.wb_data, SystemColumns[i])]_vars

\* C20: a manual cell that is filled keeps its value through every call, with
\* manual values handed in or without, whichever row the call takes.
C20_FilledManualCellNeverChanges ==
    [][\A r \in 1..Len(file.rows) : \A i \in ManualColumns :
           IsFilled(file.rows[r][i]) =>
               /\ r <= Len(file'.rows)
               /\ file'.rows[r][i] = file.rows[r][i]]_vars

\* C20 witness: the row of 04.05.2024 was made with the comment "ok", then the
\* same date came with the comment "no" and a month's total, and a third time
\* with nothing: the comment is still "ok", the total was filled in once.
C20_Witness ==
    /\ Len(add_daily_data_calls) = 3
    /\ \A k \in 1..3 : add_daily_data_calls[k].date = add_daily_data_calls[1].date
    /\ Len(add_daily_data_calls[1].manual_data) = 1
    /\ Len(add_daily_data_calls[2].manual_data) = 2
    /\ add_daily_data_calls[3].manual_data = <<>>
    /\ Len(file.rows) = 1
    /\ file.rows[1][3] = add_daily_data_calls[1].manual_data[1].value
    /\ file.rows[1][3] # add_daily_data_calls[2].manual_data[1].value
    /\ file.rows[1][4] = NumCell(Frac(7, 1))

\* C21 (as claimed): a call for a date no row carries yet appends exactly one
\* row, whose date cell is the date as it was handed in, and leaves every row
\* the file had as it was.
C21_FirstOccurrenceAppendsOneRow ==
    [][(IsUpsert /\ RowsOf(file, ThisCall.date) = {}) =>
           /\ Len(file'.rows) = Len(file.rows) + 1
           /\ file'.rows[Len(file'.rows)][DateColumn(file'.header)] = StrCell(ThisCall.date)
           /\ \A r \in 1..Len(file.rows) : file'.rows[r] = file.rows[r]]_vars

\* The rows of a file whose date cell has the day token of the date in it.
RowsWithDay(f, date) ==
    { r \in 1..Len(f.rows) :
        /\ f.rows[r][DateColumn(f.header)].kind # "blank"
        /\ Contains(CellStr(f.rows[r][DateColumn(f.header)]), DayToken(date)) }

\* Columns every aggregate of the calls has a value for.
AlwaysFilled == {5, 15, 19}

\* C28: when some row's date cell has the date's day token in it, the call
\* appends nothing and updates the first such row where it stands: that row
\* keeps its own date and takes the call's values, the other rows keep theirs.
C28_FirstRowWithDayTokenIsUpdated ==
    [][(IsUpsert /\ RowsWithDay(file, ThisCall.date) # {}) =>
           /\ Len(file'.rows) = Len(file.rows)
           /\ \A r \in 1..Len(file.rows) : \A i \in AlwaysFilled \cup {DateColumn(file.header)} :
                  file'.rows[r][i] =
                      IF r = Min(RowsWithDay(file, ThisCall.date)) /\ i \in AlwaysFilled
                      THEN WbGet(ThisCall.wb_data, SystemColumns[i])
                      ELSE file.rows[r][i]]_vars

\* C28 witness: 04.05.2024 made the row, 05.05.2024 came next with other
\* values: the file has the one row, dated 04.05.2024, with the values of the
\* second call.
C28_Witness ==
    /\ Len(add_daily_data_calls) = 2
    /\ add_daily_data_calls[1].date = <<"0", "4", ".", "0", "5", ".", "2", "0", "2", "4">>
    /\ add_daily_data_calls[2].date = <<"0", "5", ".", "0", "5", ".", "2", "0", "2", "4">>
    /\ add_daily_data_calls[1].wb_data.Kassa_den # add_daily_data_calls[2].wb_data.Kassa_den
    /\ Len(file.rows) = 1
    /\ file.rows[1][DateColumn(file.header)] = StrCell(add_daily_data_calls[1].date)
    /\ file.rows[1][5] = NumCell(add_daily_data_calls[2].wb_data.Kassa_den)

\* A row of empty cells, one per column.
EmptyRow(columns) == Cells([i \in 1..Len(columns) |-> BlankCell])

\* C29 (as claimed): for the aggregate of any call and every system column of
\* the file, the row _fill_wb_fields makes for an append and the row
\* _update_wb_fields makes for an update hold the same value.
C29_AppendAndUpdateBindAlike ==
    [][IsUpsert =>
           \A i \in DOMAIN SystemColumns :
               fill_wb_fields(EmptyRow(file.header), file.header, ThisCall.wb_data)[i]
                   = update_wb_fields(EmptyRow(file.header), file.header, ThisCall.wb_data)[i]]_vars

\* The DataFrame this call hands to write_data.
ThisFrame ==
    upserted(read_data(file), ExistingRow(read_data(file), ThisCall.date),
             ThisCall.date, ThisCall.wb_data, ThisCall.manual_data)

\* What a faithful write leaves in the file for a value of the DataFrame:
\* nothing for NaN and for the empty text, the number for a number or a text
\* of digits, the text for any other text.
Persisted(c) ==
    IF c.kind = "blank" \/ c = StrCell(<<>>) THEN BlankCell ELSE StoredValue(c)

\* C25 (as claimed): after write_data(df) the file holds, in every row and
\* under every header, the value df held under the column of that name.
C25_WriteDataIsFaithful ==
    [][IsUpsert =>
           /\ Len(file'.rows) = Len(ThisFrame.rows)
           /\ \A r \in 1..Len(ThisFrame.rows) : \A i \in 1..Len(file.header) :
                  file'.rows[r][i] = Persisted(ThisFrame.rows[r][i])]_vars

\* The aggregate without one of its fields.
Without(wb_data, key) == [k \in DOMAIN wb_data \ {key} |-> wb_data[k]]

\* The row add_daily_data makes of a call: the updated row, or the new one.
MadeRow(df, existing_row_idx, c) ==
    upserted(df, existing_row_idx, c.date, c.wb_data, c.manual_data)
        .rows[IF existing_row_idx # 0 THEN existing_row_idx ELSE Len(df.rows) + 1]

\* The row has nothing in the system columns whose field the aggregate lacks.
BlankWhereMissing(row, wb_data) ==
    \A i \in DOMAIN SystemColumns :
        SystemColumns[i] \notin DOMAIN wb_data => row[i] = BlankCell

\* The second row is the first one with the column of the field emptied.
OnlyThatColumnEmptied(row, less, key) ==
    \A i \in 1..Len(row) :
        less[i] = IF i \in DOMAIN SystemColumns /\ SystemColumns[i] = key
                  THEN BlankCell
                  ELSE row[i]

CauseMessage(e) ==
    IF e.type = "HTTPError" /\ e.status = 429 THEN "rate_limit"
    ELSE IF e.type = "HTTPError" /\ e.status = 401 THEN "auth"
    ELSE IF e.type = "HTTPError" /\ e.status = 403 THEN "forbidden"
    ELSE IF e.type = "HTTPError" THEN "http"
    ELSE IF e.type = "Timeout" THEN "timeout"
    ELSE "generic"

\* C27 (as claimed): when the sales, stocks or orders fetch ends the request
\* with its error, one more message is tried, and it is the message of the
\* error's cause.
C27_FetchFailureMessageNamesCause ==
    [][(pc \in {"sales", "stocks", "orders"} /\ fatal' # NoError) =>
           /\ Len(replies') = Len(replies) + 1
           /\ replies'[Len(replies')].msg = CauseMessage(fatal')]_vars

\* ============================================= claims: the file's formatting
\* C30 (as claimed): every cell of every data row a call writes has the style
\* the first data row had in its column before the call, and the style of the
\* column's header cell when the file had no data row.
C30_WrittenRowsInheritFormatting ==
    [][(IsUpsert /\ last_call'.formatted) =>
           \A r \in 1..Len(file'.rows) : \A i \in 1..Len(file'.header) :
               file'.styles[r][i] = IF file.rows # <<>> THEN file.styles[1][i]
                                    ELSE file.header_style[i]]_vars

\* ============================== claims: the file, made anew and written over
\* This step is the constructor's, run for a path whose file can be read.
IsConstruction ==
    /\ ~IsUpsert
    /\ file.condition = "ok"
    /\ file'.condition = "ok"
    /\ last_call' = Constructed

\* C22 (as claimed): constructing an ExcelHandler for a file that is there and
\* can be read leaves the file's rows as they are.
C22_ConstructorKeepsExistingRows ==
    [][IsConstruction => file'.rows = file.rows]_vars

\* C23 (as claimed): one read_data makes the file anew once at most, whether
\* the file was absent, of size 0 or unreadable.
C23_ReadDataRecreatesAtMostOnce ==
    [][IsUpsert => last_call'.recreated <= 1]_vars

\* C24 (as claimed): a call that wrote the file, by the workbook or by
\* to_excel, left the values and the styles of the header cells as they were.
C24_WriteDataKeepsHeader ==
    [][(IsUpsert /\ ~last_call'.raised /\ last_call'.recreated = 0) =>
           /\ file'.header = file.header
           /\ file'.header_style = file.header_style]_vars

\* ============================================ claims: the client, continued
\* An error status raise_for_status raises for and no branch singles out.
IsOtherHTTPError(o) ==
    /\ o.kind = "response"
    /\ o.status >= 400
    /\ o.status \notin {400, 401, 403, 429}

\* C33: an HTTP error other than 400, 401, 403 and 429 on request i < 5 is
\* followed by a sleep of 5, 10, 20, 40 for i = 1..4 and by another request;
\* on request 5 it is raised, after four sleeps.
C33_OtherHTTPErrorsAreRetried ==
    \A i \in 1..Len(responses) :
        IsOtherHTTPError(responses[i]) =>
            IF i < max_retries THEN
                /\ Len(sleeps) >= i
                /\ sleeps[i] = BackoffWaits[i]
                /\ (i = Len(responses) => call = "running" /\ attempt = i)
            ELSE
                /\ call = "raised"
                /\ error = Err("HTTPError", responses[i].status)
                /\ requests = 5
                /\ Len(sleeps) = 4

\* C33 witness: 500, 404, 500, 404, 500: waits 5, 10, 20, 40, then the 500 is
\* raised.
C33_Witness ==
    /\ Len(responses) = 5
    /\ \A i \in {1, 3, 5} : IsStatus(responses[i], 500)
    /\ \A i \in {2, 4} : IsStatus(responses[i], 404)
    /\ sleeps = <<5, 10, 20, 40>>
    /\ call = "raised"
    /\ error = Err("HTTPError", 500)

\* A failure the loop answers with the exponential backoff.
IsTransient(o) == o.kind \in {"timeout", "neterr"} \/ IsOtherHTTPError(o)

\* C35: one counter for all kinds of failure. A call makes five requests at
\* most whatever the answers were, a call that goes on after n answers is at
\* attempt n, and the wait after a transient failure at request i is
\* 5 * 2^(i-1), the 429s before it counted like any other answer.
C35_OneAttemptCounter ==
    /\ requests = Len(responses)
    /\ requests <= max_retries
    /\ call = "running" => attempt = requests /\ requests < max_retries
    /\ \A i \in 1..Len(responses) :
           (IsTransient(responses[i]) /\ i < max_retries) =>
               /\ Len(sleeps) >= i
               /\ sleeps[i] = Pow2(i - 1) * 5

\* C35 witness: three 429s and then the first timeout, which waits 40.
C35_Witness ==
    /\ Len(responses) = 4
    /\ \A i \in 1..3 : IsStatus(responses[i], 429)
    /\ responses[4].kind = "timeout"
    /\ Len(sleeps) = 4
    /\ sleeps[4] = 40
    /\ call = "running"
    /\ attempt = 4

\* A 429 whose Retry-After header is sent and is not an integer.
HasBadRetryAfter(o) ==
    IsStatus(o, 429) /\ o.has_retry_after /\ ~ParseInt(o.retry_after).ok

\* C36: a 429 whose Retry-After is present and not an integer ends the call at
\* once with a ValueError, on whatever attempt it arrives: it is the last
\* answer of the call, nothing was slept for it and no request follows it, and
\* the caller's message for the error is not the rate-limit one.
C36_BadRetryAfterFailsAtOnce ==
    \A i \in 1..Len(responses) : HasBadRetryAfter(responses[i]) =>
        /\ i = Len(responses)
        /\ call = "raised"
        /\ error = Err("ValueError", 0)
        /\ requests = i
        /\ Len(sleeps) = i - 1
        /\ ErrorMessage(error) # "rate_limit"

\* C36 witness: the header is unreadable on the second answer, three attempts
\* are left, the call has raised after the one sleep of the first answer.
C36_Witness ==
    /\ Len(responses) = 2
    /\ IsRateLimited(responses[1])
    /\ HasBadRetryAfter(responses[2])
    /\ call = "raised"
    /\ error.type = "ValueError"
    /\ Len(sleeps) = 1

\* ------------------------------------------ claims: the aggregate, continued
\* What the i-th stock record adds to the day's total stock: its quantity when
\* its article is one of the day's sales and no earlier stock record carries
\* that article, else nothing.
StockQuantity(s) ==
    IF Get(s, "quantity", 0) # 0 THEN s.quantity ELSE Get(s, "amount", 0)
Contribution(i) ==
    LET nmId == Get(stocks_data[i], "nmId", -2)
    IN  IF /\ nmId \in ArticlesToday
           /\ \A j \in 1..(i - 1) : Get(stocks_data[j], "nmId", -2) # nmId
        THEN StockQuantity(stocks_data[i])
        ELSE 0
StoredStock == IF Has("ostatok_tovara_na_sklade") THEN Row["ostatok_tovara_na_sklade"] ELSE 0

\* C31: the total stock of the day is the sum of the quantities of the stock
\* records that are the first of an article sold that day, each article once
\* however many sales it has; a later record of the same article and a record
\* of an article not sold that day add nothing.
C31_TotalStockFirstRecordPerArticle ==
    HasRow => StoredStock = SeqSum([i \in 1..Len(stocks_data) |-> Contribution(i)])

\* C31 witness: two sales of article 100 on the day; two stock records of
\* article 100, of 20 each: the total is the 20 of the first one.
C31_Witness ==
    /\ HasRow
    /\ Len(sales_data) = 2
    /\ \A i \in 1..2 : SaleIsOn(sales_data[i], Today) /\ sales_data[i].nmId = 100
    /\ Len(stocks_data) = 2
    /\ stocks_data[1].nmId = 100 /\ stocks_data[2].nmId = 100
    /\ StockQuantity(stocks_data[1]) = 20
    /\ StockQuantity(stocks_data[2]) = 20
    /\ StoredStock = 20

\* The day's orders, cancelled or not, and the cancelled ones among them.
OrdersToday == { i \in 1..Len(orders_data) : OrderIsOn(orders_data[i], Today) }
CancelledToday == { i \in OrdersToday : Get(orders_data[i], "isCancel", FALSE) }

\* C32: where the funnel gives no order count, the order count of the day is
\* the number of the day's orders less the cancelled ones, and when that is 0
\* (every order of the day cancelled, or no order of the day) it is the
\* number of the day's realized sales.
C32_CancelledOrdersNeverCounted ==
    (HasRow /\ FunnelOrdersToday = 0) =>
        LET kept == Cardinality(OrdersToday) - Cardinality(CancelledToday)
        IN  /\ kept > 0 => Row.zakazy = kept
            /\ kept = 0 => Row.zakazy = RealizedSalesToday

\* C32 witness: two orders of the day, both cancelled, and one realized sale
\* of the day: the order count is 1.
C32_Witness ==
    /\ HasRow
    /\ funnel_data = <<>>
    /\ Cardinality(OrdersToday) = 2
    /\ CancelledToday = OrdersToday
    /\ RealizedSalesToday = 1
    /\ Row.zakazy = 1

\* The price one advert record yields: its cpc when positive, else its own
\* spend per click when it has clicks and spend, else none (0).
RecordSpend(a) == IF Get(a, "sum", 0) # 0 THEN a.sum ELSE Get(a, "cost", 0)
PriceOf(a) ==
    IF Get(a, "cpc", Zero).num > 0 THEN a.cpc
    ELSE IF Get(a, "clicks", 0) > 0 /\ RecordSpend(a) > 0
         THEN Frac(RecordSpend(a), a.clicks)
    ELSE Zero
Yielding ==
    { i \in 1..Len(advert_data) :
        AdvertToday(advert_data[i]) /\ PriceOf(advert_data[i]).num > 0 }
SpendToday == FieldSum(advert_data, AdvertToday, "sum")

\* C37: when some advert record of the day yields a price, the click price of
\* both channels is the price of the last such record, and so is the general
\* click price when the day has clicks; when none does, the auction's click
\* price is the day's spend per click if the day has clicks and spend, and is
\* absent otherwise.
C37_LastYieldedPriceIsStored ==
    (HasRow /\ \E i \in 1..Len(advert_data) : AdvertToday(advert_data[i])) =>
        IF Yielding # {}
        THEN LET last == advert_data[Max(Yielding)]
             IN  /\ Has("tsena_klika_AUKTS") /\ Row["tsena_klika_AUKTS"] = PriceOf(last)
                 /\ Has("tsena_klika_ARK") /\ Row["tsena_klika_ARK"] = PriceOf(last)
                 /\ ClicksToday > 0 =>
                        Has("tsena_klika") /\ Row["tsena_klika"] = PriceOf(last)
        ELSE /\ Has("tsena_klika_AUKTS") <=> (ClicksToday > 0 /\ SpendToday > 0)
             /\ Has("tsena_klika_AUKTS") =>
                    Row["tsena_klika_AUKTS"] = Frac(SpendToday, ClicksToday)
             /\ Has("tsena_klika") <=> Has("tsena_klika_AUKTS")
             /\ Has("tsena_klika") => Row["tsena_klika"] = Frac(SpendToday, ClicksToday)
             /\ ~Has("tsena_klika_ARK")

\* C37 witness: a record reporting cpc 3.5, then one without cpc with 10
\* clicks for a spend of 100: the stored price is 10.
C37_Witness ==
    /\ HasRow
    /\ Len(advert_data) = 2
    /\ Yielding = {1, 2}
    /\ PriceOf(advert_data[1]) = Frac(7, 2)
    /\ "cpc" \notin DOMAIN advert_data[2]
    /\ PriceOf(advert_data[2]) = Frac(10, 1)
    /\ Row["tsena_klika_AUKTS"] = Frac(10, 1)
    /\ Row["tsena_klika"] = Frac(10, 1)

\* ------------------------------------------- claims: the workbook, continued
\* The dates of the calls that found no row for their day token, in order:
\* the dates the rows of the file were created with.
RECURSIVE CreatedDates(_)
CreatedDates(calls) ==
    IF calls = <<>> THEN <<>>
    ELSE LET before == CreatedDates(SubSeq(calls, 1, Len(calls) - 1))
             date == calls[Len(calls)].date
         IN  IF \E r \in 1..Len(before) : Contains(before[r], DayToken(date))
             THEN before
             ELSE Append(before, date)

\* C38: every row of the file carries, as a text, the date of the call that
\* created it, whatever calls have updated the row since, a call for another
\* date with the same day token among them.
C38_UpdateKeepsDateCell ==
    /\ Len(file.rows) = Len(CreatedDates(add_daily_data_calls))
    /\ \A r \in 1..Len(file.rows) :
           file.rows[r][DateColumn(file.header)]
               = StrCell(CreatedDates(add_daily_data_calls)[r])

\* C38 witness: 04.05.2024 made the row and two calls for 05.05.2024 updated
\* it: the one row is still dated 04.05.2024.
C38_Witness ==
    /\ Len(add_daily_data_calls) = 3
    /\ add_daily_data_calls[1].date = <<"0", "4", ".", "0", "5", ".", "2", "0", "2", "4">>
    /\ \A k \in 2..3 :
           add_daily_data_calls[k].date = <<"0", "5", ".", "0", "5", ".", "2", "0", "2", "4">>
    /\ Len(file.rows) = 1
    /\ file.rows[1][DateColumn(file.header)]
           = StrCell(<<"0", "4", ".", "0", "5", ".", "2", "0", "2", "4">>)

\* The step is a call of update_row.
IsUpdateRow == ~IsUpsert /\ last_call'.op = "update_row"

\* C39 (as claimed): update_row raises exactly when no row's date cell is the
\* date letter for letter, and then leaves the file as it was; when some row
\* is, the file differs from what it was only in the cells of those rows
\* under the columns named by a key of updates, which hold the key's value.
C39_UpdateRowExactAndNarrow ==
    [][IsUpdateRow =>
           LET c == last_call'
               named(i) == { k \in 1..Len(c.updates) : c.updates[k].key = file.header[i] }
           IN  /\ c.raised <=> RowsOf(file, c.date) = {}
               /\ c.raised => file' = file
               /\ ~c.raised =>
                      /\ Len(file'.rows) = Len(file.rows)
                      /\ \A r \in 1..Len(file.rows) : \A i \in 1..Len(file.header) :
                             file'.rows[r][i] =
                                 IF r \in RowsOf(file, c.date) /\ named(i) # {}
                                 THEN c.updates[Max(named(i))].value
                                 ELSE file.rows[r][i]]_vars

\* ------------------------------------------------ claims: the error reports
\* The messages of the except clauses, and the replies that carry one.
ErrorTexts == {"date_format", "rate_limit", "auth", "forbidden", "http", "timeout", "generic"}
ErrorReports == { i \in 1..Len(replies) : replies[i].msg \in ErrorTexts }
SendAttempts == SeqSum([i \in 1..Len(replies) |-> replies[i].attempts])

\* No message takes more than 3 attempts, one that failed on network errors
\* took all 3, at most one message reports an error, nothing is sent after
\* it whether it got through or not, and the request sent 15 times at most.
SendingIsBounded ==
    /\ \A i \in 1..Len(replies) :
           /\ replies[i].attempts \in 1..3
           /\ replies[i].outcome = "NetworkError" => replies[i].attempts = 3
    /\ Cardinality(ErrorReports) <= 1
    /\ \A i \in ErrorReports : i = Len(replies) /\ pc = "done"
    /\ SendAttempts <= 15

\* C34: the sending is bounded all along, and parse_command comes to its end.
C34_ErrorReportingIsBounded == []SendingIsBounded /\ <>(pc = "done")

\* C34 witness: the sales fetch ended in an HTTP 429, the report of it failed
\* on three network errors, and parse_command is over with nothing sent since.
C34_Witness ==
    /\ pc = "done"
    /\ fatal = Err("HTTPError", 429)
    /\ Len(replies) = 2
    /\ replies[2] = [msg |-> "rate_limit", outcome |-> "NetworkError", attempts |-> 3]
    /\ escaped = Err("NetworkError", 0)

\* ---------------------------------------------- claims: the file that is sent
\* A sending of the file is among the replies, whether it got through or not.
FileSendTried == \E i \in 1..Len(replies) : replies[i].msg = "document"

\* C40: a sending of the file is tried only in a request whose add_daily_data
\* has been called and has left its row in the file; a request that is past
\* its start without that call has the file on disk, made by the constructor
\* and without a row, and has tried no sending of it, also when it is over.
C40_FileSentOnlyAfterUpsert ==
    /\ FileSendTried =>
           /\ Len(add_daily_data_calls) = 1
           /\ last_call.op = "add_daily_data"
           /\ Len(file.rows) >= 1
    /\ (pc # "start" /\ add_daily_data_calls = <<>>) =>
           /\ file.condition = "ok"
           /\ file.rows = <<>>
           /\ last_call = Constructed
           /\ ~FileSendTried

\* C40 witness: the stocks fetch ended in an HTTP 401 after the sales were
\* fetched: the request is over, the error is reported, the file exists
\* without a row and was not sent.
C40_Witness ==
    /\ pc = "done"
    /\ fatal = Err("HTTPError", 401)
    /\ requested = {"sales", "stocks"}
    /\ add_daily_data_calls = <<>>
    /\ file.condition = "ok"
    /\ replies = <<Reply("starting", "sent"), Reply("auth", "sent")>>

====
